---------------------------- MODULE Spec2Model ----------------------------
(***************************************************************************)
(* A model of bdougie/vision: the frame-analysis pipeline                  *)
(* (internal/analyzer/analyzer.go) and the batched file result store       *)
(* (internal/storage/storage.go, and its root-package predecessor          *)
(* AnalysisResultBatch).                                                   *)
(*                                                                         *)
(* Three specifications share the store's state:                           *)
(*   Spec       the pipeline: ProcessVideo, the worker pool, the           *)
(*              dispatcher, the results collector and the final Flush;     *)
(*   SpecStore  a file store driven by arbitrary AddResult / Flush calls;  *)
(*   SpecBatch  a file store driven by N AddResult calls and one Flush.    *)
(***************************************************************************)
EXTENDS Integers, Sequences, FiniteSets, TLC

(***************************************************************************)
(* Bounds of the model.                                                    *)
(***************************************************************************)
\* frames a video directory holds at most (pipeline)
MaxFrames == 3
\* frame identifiers the AddResult calls of SpecStore draw from
StoreFrames == 2
\* size of the worker pool the model runs (the source runs maxWorkers = 4;
\* the pool is kept smaller than the frame list so that workers take several
\* items each)
NumWorkers == 2
\* AddResult calls of one run of SpecStore
MaxAdds == 3
\* largest N of SpecBatch
MaxBatch == 23
\* file-system calls that fail in one run
MaxFaults == 1
\* embedding service: the largest numWorkers NewService is given
MaxEmbWorkers == 2
\* embedding service: capacity of the work queue the model runs (the source
\* makes the channel with a buffer of 100; the model keeps it below the
\* number of requests so that the queue fills)
QueueCap == 1
\* embedding service: GetEmbedding calls of one run
MaxRequests == 2
\* embedding service: distinct contents requested
MaxContents == 2
\* the contents asked for under SpecEmbLive
LiveContents == 1
\* root package: the most JPEG frames processVideo finds
RootFrames == 2
\* relational store: AddResult calls of one run (each its own goroutine)
MaxPgCalls == 2
\* searches: frames of the video in the tables searched
SearchFrames == 2
\* searches: the largest limit a search is given
MaxLimit == 2

\* table videos: the calls of getOrCreateVideo, and the video names
MaxVideoCalls == 3
MaxVideoNames == 2
\* BatchAddResults: the most results one call is given
MaxSubmitted == 9
\* pipeline under fair scheduling: the most frames a run is given
LiveFrames == 2
\* file store under concurrent callers: goroutines calling it
NumCallers == 2
\* file store under concurrent callers: AddResult calls made in all
MaxLockAdds == 10

(***************************************************************************)
(* Program constants.                                                      *)
(***************************************************************************)
batchSize == 10

VARIABLES
    \* ---- the file store (Storage / storageImpl / AnalysisResultBatch)
    impl,        \* which implementation the store object is
    results,     \* s.results: the in-memory batch
    fs,          \* the results directory and analysis_results.json
    ret,         \* what the last AddResult / Flush call did and returned
    faults,      \* history: failed file-system calls, by kind
    \* ---- drivers of SpecStore / SpecBatch
    nAdds,       \* AddResult calls made so far
    target,      \* SpecBatch: N, the number of AddResult calls to make
    flushLog,    \* SpecBatch: one entry for every call of flush
    \* ---- the pipeline
    files,       \* ProcessVideo: the entries os.ReadDir returns
    frames,      \* the sorted frame list handed to processFrames
    workChan, workClosed,
    resultsChan, resultsClosed,
    errorsChan, errorsClosed,
    wpc,         \* worker -> position in its loop
    work,        \* worker -> the WorkItem it holds
    wg,          \* the WaitGroup counter
    remainingFrames,
    dpc,         \* dispatcher: index of the next frame to enqueue
    cpc,         \* collector: position in its loop
    cres,        \* collector: the result it holds
    mpc,         \* the goroutine running ProcessVideo / processFrames
    retval,      \* what ProcessVideo returned
    hist         \* history: per frame, pulls, model calls and outcomes

VARIABLES
    \* ---- the embedding service (internal/embeddings)
    numWorkers,  \* s.numWorkers
    workQueue,   \* s.workQueue: the Work items buffered in the channel
    queueClosed, \* whether s.workQueue has been closed
    cache,       \* s.cache: content -> embedding
    ewg,         \* s.wg
    ewpc,        \* worker -> position in its loop
    ework,       \* worker -> the Work it holds
    eres,        \* worker -> the Result it is about to send
    resultChan,  \* request -> its result channel: buffer and closed flag
    nReq,        \* GetEmbedding calls made so far
    lastCall,    \* the last GetEmbedding call: request, content, outcome
    closer,      \* the goroutine calling Close
    panicked,    \* the process has died of a panic
    ehist        \* history: invocations of generateEmbedding, deliveries

VARIABLES
    \* ---- the relational store (PostgresStorage)
    frameRows,    \* table frames
    analysisRows, \* table analyses
    frameSeq,     \* the sequence behind frames.id
    analysisSeq,  \* the sequence behind analyses.id
    pgpc,         \* AddResult call -> position in the method
    pgarg,        \* AddResult call -> its argument
    pgloc,        \* AddResult call -> frameNum, frameID
    pgret,        \* AddResult call -> what it returned
    pghist,       \* history: embedding requests made by each call
    batchCall     \* BatchAddResults: position and what it returned

VARIABLES
    \* ---- searches of the relational store
    sres          \* the last search call: its arguments and what it returned

VARIABLES
    \* ---- goroutines calling one file store concurrently
    mu,           \* s.mu: the goroutines that hold the mutex
    lpc,          \* goroutine -> position in AddResult / Flush
    lcall,        \* goroutine -> the call it is making and its argument
    lall,         \* goroutine -> flush's local allResults
    ldone,        \* history: AddResult calls that have returned
    stored0       \* history: the entries the results file held at first

VARIABLES
    \* ---- the goroutines of one BatchAddResults call
    submitted,    \* len(results)
    semaphore,    \* the tokens in the semaphore channel
    bgo,          \* how many goroutines stand at each statement
    errChan       \* the errors sent on errChan

VARIABLES
    \* ---- table videos and the calls of getOrCreateVideo
    videoRows,    \* table videos
    videoSeq,     \* the sequence behind videos.id
    vpc,          \* call -> position in getOrCreateVideo
    varg,         \* call -> videoName
    vret          \* call -> the id and the error returned

VARIABLES
    \* ---- processVideo of the root package (video.go), one run
    root          \* the results file, the batch, the channels and the
                  \* position of every goroutine

storeVars == <<impl, results, fs, ret, faults>>
searchVars == <<sres>>
lockVars == <<mu, lpc, lcall, lall, ldone, stored0>>
semVars == <<submitted, semaphore, bgo, errChan>>
videoVars == <<videoRows, videoSeq, vpc, varg, vret>>
rootVars == <<root>>
auxVars == <<semVars, videoVars, rootVars>>
pgVars == <<frameRows, analysisRows, frameSeq, analysisSeq, pgpc, pgarg, pgloc,
            pgret, pghist, batchCall>>
embVars == <<numWorkers, workQueue, queueClosed, cache, ewg, ewpc, ework, eres,
             resultChan, nReq, lastCall, closer, panicked, ehist>>
svcVars == <<embVars, pgVars, searchVars, lockVars, auxVars>>
driverVars == <<nAdds, target, flushLog>>
chanVars == <<workChan, workClosed, resultsChan, resultsClosed,
              errorsChan, errorsClosed>>
pipeVars == <<files, frames, chanVars, wpc, work, wg, remainingFrames,
              dpc, cpc, cres, mpc, retval, hist>>
vars == <<storeVars, driverVars, pipeVars, svcVars>>

(***************************************************************************)
(* Data.                                                                   *)
(***************************************************************************)
FrameIds == 1..MaxFrames

\* models.AnalysisResult; the model's text is opaque to the program
AnalysisResult(f) == [Frame |-> f, Content |-> "text"]

\* models.WorkItem
WorkItem(f, i, n) == [FramePath |-> f, FrameNum |-> i, Total |-> n]

Range(s) == {s[i] : i \in 1..Len(s)}

Workers == 1..NumWorkers

\* the calls of getOrCreateVideo, each by a process of its own
VideoCalls == 1..MaxVideoCalls

\* the goroutines that call one file store concurrently
Callers == 1..NumCallers

(***************************************************************************)
(* The file store.                                                         *)
(*                                                                         *)
(* fs = [dir, st, content]: dir says whether outputDir/videoName exists;   *)
(* st is "missing" (no results file), "corrupt" (a file json.Unmarshal     *)
(* rejects: os.Create has truncated it, or an encode stopped half-way) or  *)
(* "ok" (a JSON array, whose entries are content).                         *)
(*                                                                         *)
(* io = [read, mkdir, create, encode]: whether the environment lets        *)
(* os.ReadFile of an existing file, os.MkdirAll, os.Create and             *)
(* Encoder.Encode succeed in this call.                                    *)
(***************************************************************************)
StoreImpls == {"Storage", "storageImpl", "AnalysisResultBatch"}

IOOutcomes == [read : BOOLEAN, mkdir : BOOLEAN, create : BOOLEAN, encode : BOOLEAN]

AllSucceed == [read |-> TRUE, mkdir |-> TRUE, create |-> TRUE, encode |-> TRUE]

\* the outcomes the environment can give a call: a call that reaches no
\* file-system call has nothing that can fail
IOChoices(reachesFiles) == IF reachesFiles THEN IOOutcomes ELSE {AllSucceed}

NoFaults == [read |-> 0, write |-> 0]

\* a faulty variant of BatchFull: AddResult never flushes
BatchNeverFull(b) == FALSE
\* a faulty variant of BatchFull: the comparison off by one
BatchFullLate(b) == Len(b) > batchSize
\* AddResult: "if len(s.results) >= batchSize"
BatchFull(b) == Len(b) >= batchSize

\* a faulty variant of MergeResults: the arguments of append swapped
MergeBatchFirst(existing, batch) == batch \o existing
\* flush: "allResults := append(existingResults, s.results...)"
MergeResults(existing, batch) == existing \o batch

\* a faulty variant of BatchAfterFlush: the batch cleared before the write
BatchAlwaysCleared(err, batch) == << >>
\* flush: the batch after the call; "s.results = nil" is the last statement,
\* reached only when nothing before it returned an error
BatchAfterFlush(err, batch) == IF err = "nil" THEN << >> ELSE batch

\* flush: os.ReadFile + json.Unmarshal of the results file.
\* [err, existing, readFault]
ReadExisting(i, f, io) ==
    IF f.st = "missing" THEN [err |-> "nil", existing |-> << >>, fault |-> 0]
    ELSE IF ~io.read THEN [err |-> "nil", existing |-> << >>, fault |-> 1]
    ELSE IF f.st = "ok" THEN [err |-> "nil", existing |-> f.content, fault |-> 0]
    ELSE IF i = "storageImpl"
         THEN [err |-> "unmarshal", existing |-> << >>, fault |-> 0]
         ELSE [err |-> "nil", existing |-> << >>, fault |-> 0]

\* a faulty variant of EmptyBatch: the early return missing
EmptyBatchNever(b) == FALSE
\* flush: "if len(s.results) == 0 { return nil }"
EmptyBatch(b) == Len(b) = 0

\* flush: the whole function. [err, results, fs, wrote, pre, faults]
flush(i, batch, f, io) ==
    LET unchanged(e, nr, nw) ==
            [err |-> e, results |-> BatchAfterFlush(e, batch), fs |-> f,
             wrote |-> FALSE, pre |-> batch,
             faults |-> [read |-> nr, write |-> nw]]
    IN
    IF EmptyBatch(batch) THEN unchanged("nil", 0, 0)
    ELSE
    LET rd == ReadExisting(i, f, io)
        allResults == MergeResults(rd.existing, batch)
        needMkdir == i # "AnalysisResultBatch" /\ ~f.dir
        dirAfter == f.dir \/ (needMkdir /\ io.mkdir)
    IN
    IF rd.err # "nil" THEN unchanged(rd.err, rd.fault, 0)
    ELSE IF needMkdir /\ ~io.mkdir THEN unchanged("mkdir", rd.fault, 1)
    ELSE IF ~dirAfter THEN
        \* AnalysisResultBatch.flush creates no directory: os.Create fails
        [err |-> "create", results |-> BatchAfterFlush("create", batch), fs |-> f,
         wrote |-> FALSE, pre |-> batch,
         faults |-> [read |-> rd.fault, write |-> 0]]
    ELSE IF ~io.create THEN
        [err |-> "create", results |-> BatchAfterFlush("create", batch),
         fs |-> [f EXCEPT !.dir = dirAfter],
         wrote |-> FALSE, pre |-> batch,
         faults |-> [read |-> rd.fault, write |-> 1]]
    ELSE IF ~io.encode THEN
        [err |-> "encode", results |-> BatchAfterFlush("encode", batch),
         fs |-> [dir |-> TRUE, st |-> "corrupt", content |-> << >>],
         wrote |-> FALSE, pre |-> batch,
         faults |-> [read |-> rd.fault, write |-> 1]]
    ELSE
        [err |-> "nil", results |-> BatchAfterFlush("nil", batch),
         fs |-> [dir |-> TRUE, st |-> "ok", content |-> allResults],
         wrote |-> TRUE, pre |-> batch,
         faults |-> [read |-> rd.fault, write |-> 0]]

\* What AddResult hands back to its caller: storageImpl.AddResult returns the
\* flush error; Storage.AddResult and AnalysisResultBatch.addResult have no
\* result and only print it.
AddResultReturn(i, flushErr) ==
    IF i = "storageImpl" THEN flushErr ELSE "void"

\* AddResult: the whole method, under s.mu. The call's record.
AddResult(i, batch, f, r, io) ==
    LET appended == Append(batch, r) IN
    IF BatchFull(appended)
    THEN LET fl == flush(i, appended, f, io) IN
         [op |-> "AddResult", flushed |-> TRUE, flushErr |-> fl.err,
          err |-> AddResultReturn(i, fl.err), results |-> fl.results,
          fs |-> fl.fs, wrote |-> fl.wrote, pre |-> fl.pre, faults |-> fl.faults]
    ELSE [op |-> "AddResult", flushed |-> FALSE, flushErr |-> "nil",
          err |-> AddResultReturn(i, "nil"), results |-> appended,
          fs |-> f, wrote |-> FALSE, pre |-> appended, faults |-> NoFaults]

\* Flush: the whole method, under s.mu. The call's record.
Flush(i, batch, f, io) ==
    LET fl == flush(i, batch, f, io) IN
    [op |-> "Flush", flushed |-> TRUE, flushErr |-> fl.err, err |-> fl.err,
     results |-> fl.results, fs |-> fl.fs, wrote |-> fl.wrote, pre |-> fl.pre,
     faults |-> fl.faults]

\* The entries a results file holds
Stored(f) == IF f.st = "ok" THEN f.content ELSE << >>

NoCall == [op |-> "none", flushed |-> FALSE, flushErr |-> "nil", err |-> "nil",
           wrote |-> FALSE, pre |-> << >>, before |-> << >>,
           beforeSt |-> "missing", readFault |-> 0]

\* The store's state after a call, and the call's record in ret.
FaultsAllowed(c) ==
    faults.read + faults.write + c.faults.read + c.faults.write <= MaxFaults

ApplyCall(c) ==
    /\ FaultsAllowed(c)
    /\ results' = c.results
    /\ fs' = c.fs
    /\ faults' = [read |-> faults.read + c.faults.read,
                  write |-> faults.write + c.faults.write]
    /\ ret' = [op |-> c.op, flushed |-> c.flushed, flushErr |-> c.flushErr,
               err |-> c.err, wrote |-> c.wrote, pre |-> c.pre,
               before |-> Stored(fs), beforeSt |-> fs.st,
               readFault |-> c.faults.read]
    /\ UNCHANGED impl


(***************************************************************************)
(* The parts of the state a specification does not use stay as they are.  *)
(***************************************************************************)
NoHist == [pulled |-> 0, calls |-> 0, res |-> 0, err |-> 0]

DriverIdle ==
    /\ nAdds = 0
    /\ target = 0
    /\ flushLog = << >>

PipeIdle ==
    /\ files = {}
    /\ frames = << >>
    /\ workChan = << >> /\ workClosed = FALSE
    /\ resultsChan = << >> /\ resultsClosed = FALSE
    /\ errorsChan = << >> /\ errorsClosed = FALSE
    /\ wpc = [w \in Workers |-> "unstarted"]
    /\ work = [w \in Workers |-> WorkItem(0, 0, 0)]
    /\ wg = 0
    /\ remainingFrames = 0
    /\ dpc = 0
    /\ cpc = "unstarted"
    /\ cres = AnalysisResult(0)
    /\ mpc = "idle"
    /\ retval = [kind |-> "none"]
    /\ hist = [prior |-> << >>, per |-> [f \in FrameIds |-> NoHist]]

(***************************************************************************)
(* The embedding service, before NewService.                               *)
(***************************************************************************)
EmbWorkers == 1..MaxEmbWorkers
Contents == 1..MaxContents
Requests == 1..MaxRequests

NoVector == "none"

\* embeddings.Work: the content and the send end of the caller's channel
\* (the model names a channel by the number of the request that made it)
Work(c, r) == [Content |-> c, Result |-> r]

\* embeddings.Result
Result(c, e, err) == [Content |-> c, Embedding |-> e, Error |-> err]

NoWork == Work(0, 0)
NoResult == Result(0, NoVector, "nil")

\* "make(chan Result, 1)"
NewResultChan == [buf |-> << >>, closed |-> FALSE]

NoEmbCall == [req |-> 0, content |-> 0, outcome |-> "none"]

NoEmbHist ==
    [gen |-> [c \in Contents |-> 0],          \* invocations of generateEmbedding
     genAfterStore |-> [c \in Contents |-> 0],\* ... of them, after the first Store
     sent |-> [r \in Requests |-> 0],         \* messages ever sent on the channel
     got |-> [r \in Requests |-> "nothing"],  \* what the caller received
     atClose |-> FALSE]                       \* Close was called with requests unanswered

EmbIdle ==
    /\ numWorkers = 0
    /\ workQueue = << >>
    /\ queueClosed = FALSE
    /\ cache = [c \in Contents |-> NoVector]
    /\ ewg = 0
    /\ ewpc = [w \in EmbWorkers |-> "unstarted"]
    /\ ework = [w \in EmbWorkers |-> NoWork]
    /\ eres = [w \in EmbWorkers |-> NoResult]
    /\ resultChan = [r \in Requests |-> NewResultChan]
    /\ nReq = 0
    /\ lastCall = NoEmbCall
    /\ closer = "idle"
    /\ panicked = FALSE
    /\ ehist = NoEmbHist

(***************************************************************************)
(* The relational store, before any call.                                  *)
(***************************************************************************)
PgCalls == 1..MaxPgCalls

\* a SQL NULL
Null == "null"

\* a frame file name: the directory part, the digits after "frame_" and
\* what follows them
FrameName(dir, digits, ext) == [dir |-> dir, digits |-> digits, ext |-> ext]

NoArg == [Frame |-> FrameName("", << >>, ""), Content |-> ""]
NoLoc == [frameNum |-> 0, frameID |-> 0, embedding |-> Null, embErr |-> "nil"]
NoBatch == [pc |-> "idle", err |-> "nil", failed |-> 0]

PgIdle ==
    /\ frameRows = {}
    /\ analysisRows = {}
    /\ frameSeq = 1
    /\ analysisSeq = 1
    /\ pgpc = [p \in PgCalls |-> "idle"]
    /\ pgarg = [p \in PgCalls |-> NoArg]
    /\ pgloc = [p \in PgCalls |-> NoLoc]
    /\ pgret = [p \in PgCalls |-> "none"]
    /\ pghist = [p \in PgCalls |-> 0]
    /\ batchCall = NoBatch

\* a goroutine that is in no call of the file store
NoLockCall == [op |-> "none", arg |-> 0, err |-> "nil"]

LockIdle ==
    /\ mu = {}
    /\ lpc = [g \in Callers |-> "idle"]
    /\ lcall = [g \in Callers |-> NoLockCall]
    /\ lall = [g \in Callers |-> << >>]
    /\ ldone = 0
    /\ stored0 = << >>

\* no BatchAddResults call
NoGoroutines == [wait |-> 0, run |-> 0, release |-> 0, done |-> 0]

SemIdle ==
    /\ submitted = 0
    /\ semaphore = 0
    /\ bgo = NoGoroutines
    /\ errChan = 0

\* what a getOrCreateVideo call that has not returned has returned
NoVideoRet == [id |-> 0, err |-> "none"]

VideoIdle ==
    /\ videoRows = {}
    /\ videoSeq = 1
    /\ vpc = [c \in VideoCalls |-> "idle"]
    /\ varg = [c \in VideoCalls |-> 0]
    /\ vret = [c \in VideoCalls |-> NoVideoRet]

\* root package: "MaxWorkers = 4", "BatchSize = 10"
MaxWorkers == 4
BatchSize == 10

RootWorkers == 1..MaxWorkers
RootFrameSet == 1..RootFrames

\* a list of AnalysisResult values, as the number of entries it holds of
\* each frame
NoEntries == [f \in RootFrameSet |-> 0]
OneEntry(f) == [g \in RootFrameSet |-> IF g = f THEN 1 ELSE 0]
Entries(a, b) == [f \in RootFrameSet |-> a[f] + b[f]]
RECURSIVE Total(_, _)
Total(a, n) == IF n = 0 THEN 0 ELSE a[n] + Total(a, n - 1)

\* processVideo not running
NoRoot ==
    [n |-> 0,                  \* len(frames)
     file |-> NoEntries,       \* analysis_results.json (absent: no entries)
     batch |-> NoEntries,      \* batch.results
     workChan |-> << >>, workClosed |-> FALSE, sent |-> 0,
     resultsChan |-> << >>, resultsClosed |-> FALSE,
     wg |-> 0,
     wpc |-> [w \in RootWorkers |-> "unstarted"],
     item |-> [w \in RootWorkers |-> 0],         \* work.framePath
     results |-> [w \in RootWorkers |-> NoEntries], \* saveAnalysisResult: results
     mpc |-> "idle",
     allResults |-> NoEntries]                   \* flush: allResults

RootIdle == root = NoRoot

AuxIdle == SemIdle /\ VideoIdle /\ RootIdle

NoSearch == [op |-> "none", query |-> << >>, limit |-> 0, err |-> "nil",
             results |-> << >>]

SearchIdle == sres = NoSearch

SvcIdle == EmbIdle /\ PgIdle /\ SearchIdle /\ LockIdle /\ AuxIdle

(***************************************************************************)
(* SpecStore: one file store, any sequence of AddResult and Flush calls.   *)
(* The results file may be left from an earlier run: missing, rejected by  *)
(* json.Unmarshal, or holding results of distinct frames.                  *)
(***************************************************************************)
StoreFrameIds == 1..StoreFrames

DistinctFrameSeqs(n) ==
    UNION {{s \in [1..k -> StoreFrameIds] : \A i, j \in 1..k : i # j => s[i] # s[j]}
           : k \in 0..n}

StoredSeqs == {[i \in 1..Len(s) |-> AnalysisResult(s[i])] : s \in DistinctFrameSeqs(2)}

InitialFiles ==
    {[dir |-> FALSE, st |-> "missing", content |-> << >>],
     [dir |-> TRUE, st |-> "missing", content |-> << >>],
     [dir |-> TRUE, st |-> "corrupt", content |-> << >>]}
    \cup {[dir |-> TRUE, st |-> "ok", content |-> c] : c \in StoredSeqs}

\* NewStorage: an empty batch
NewStorage(i) ==
    /\ impl = i
    /\ results = << >>
    /\ ret = NoCall
    /\ faults = NoFaults

InitStore ==
    /\ \E i \in StoreImpls : NewStorage(i)
    /\ fs \in InitialFiles
    /\ DriverIdle
    /\ PipeIdle
    /\ SvcIdle

StoreAdd(f) ==
    /\ nAdds < MaxAdds
    /\ \E io \in IOChoices(BatchFull(Append(results, AnalysisResult(f)))) :
         ApplyCall(AddResult(impl, results, fs, AnalysisResult(f), io))
    /\ nAdds' = nAdds + 1
    /\ UNCHANGED <<target, flushLog, pipeVars, svcVars>>

StoreFlush ==
    /\ \E io \in IOChoices(results # << >>) : ApplyCall(Flush(impl, results, fs, io))
    /\ UNCHANGED <<driverVars, svcVars, pipeVars>>

NextStore ==
    \/ \E f \in StoreFrameIds : StoreAdd(f)
    \/ StoreFlush

SpecStore == InitStore /\ [][NextStore]_vars

(***************************************************************************)
(* SpecCrash: SpecStore, and the process may die inside a Flush call. The  *)
(* file is left as the call's file-system calls made so far have made it;  *)
(* the batch dies with the process, and the next run starts with           *)
(* NewStorage on the same directory.                                       *)
(***************************************************************************)
CrashPoints == {"beforeCreate", "midWrite", "afterWrite"}

\* flush: the results file when the process stops at point p of a flush
\* whose file-system calls succeed. os.Create has truncated the file in
\* place; the encoder then writes the merged array into that same file.
FileAtCrash(p, f, fl) ==
    CASE p = "beforeCreate" -> f
      [] p = "midWrite" -> [dir |-> TRUE, st |-> "corrupt", content |-> << >>]
      [] p = "afterWrite" -> fl.fs

StoreCrash(p) ==
    /\ ~EmptyBatch(results)
    /\ LET fl == flush(impl, results, fs, AllSucceed) IN
         \* a flush that returns before os.Create can only stop before it
         /\ p # "beforeCreate" => fl.err = "nil"
         /\ fs' = FileAtCrash(p, fs, fl)
    /\ results' = << >>
    /\ ret' = [op |-> "crash", flushed |-> TRUE, flushErr |-> "crash",
               err |-> "crash", wrote |-> (p = "afterWrite"), pre |-> results,
               before |-> Stored(fs), beforeSt |-> fs.st, readFault |-> 0]
    /\ UNCHANGED <<impl, faults, driverVars, svcVars, pipeVars>>

NextCrash ==
    \/ \E f \in StoreFrameIds : StoreAdd(f)
    \/ StoreFlush
    \/ \E p \in CrashPoints : StoreCrash(p)

SpecCrash == InitStore /\ [][NextCrash]_vars

(***************************************************************************)
(* SpecBatch: a new file store, N AddResult calls for frames 1..N, then    *)
(* one Flush (what one run of the pipeline asks of its store).             *)
(***************************************************************************)
LogEntry(c, n) == [at |-> n, n |-> Len(c.pre), op |-> c.op, err |-> c.flushErr]

InitBatch ==
    /\ \E i \in StoreImpls : NewStorage(i)
    /\ fs \in {[dir |-> d, st |-> "missing", content |-> << >>] : d \in BOOLEAN}
    /\ nAdds = 0
    /\ target \in 0..MaxBatch
    /\ flushLog = << >>
    /\ PipeIdle
    /\ SvcIdle

BatchAdd ==
    /\ nAdds < target
    /\ \E io \in IOChoices(BatchFull(Append(results, AnalysisResult(nAdds + 1)))) :
         LET c == AddResult(impl, results, fs, AnalysisResult(nAdds + 1), io) IN
         /\ ApplyCall(c)
         /\ flushLog' = IF c.flushed THEN Append(flushLog, LogEntry(c, nAdds + 1))
                                     ELSE flushLog
    /\ nAdds' = nAdds + 1
    /\ UNCHANGED <<target, pipeVars, svcVars>>

BatchFinalFlush ==
    /\ nAdds = target
    /\ ret.op # "Flush"
    /\ \E io \in IOChoices(results # << >>) :
         LET c == Flush(impl, results, fs, io) IN
         /\ ApplyCall(c)
         /\ flushLog' = Append(flushLog, LogEntry(c, nAdds))
    /\ UNCHANGED <<nAdds, target, pipeVars, svcVars>>

NextBatch ==
    \/ BatchAdd
    \/ BatchFinalFlush

SpecBatch == InitBatch /\ [][NextBatch]_vars

(***************************************************************************)
(* The pipeline: Processor.ProcessVideo and Processor.processFrames.       *)
(*                                                                         *)
(* A directory entry is [name, isDir, ext]; names are the sort keys of the *)
(* file names. The frame directory is also the directory of the results    *)
(* file, so a run after an earlier one lists analysis_results.json too.    *)
(***************************************************************************)
FrameEntry(i) == [name |-> i, isDir |-> FALSE, ext |-> IF i = 2 THEN "JPG" ELSE "jpg"]
ResultsEntry == [name |-> 0, isDir |-> FALSE, ext |-> "json"]
SubDirEntry == [name |-> MaxFrames + 1, isDir |-> TRUE, ext |-> "jpg"]

\* strings.ToLower, on the extensions of the model
ToLower(ext) == IF ext = "JPG" THEN "jpg" ELSE ext

\* ProcessVideo: "!file.IsDir() && strings.HasSuffix(strings.ToLower(file.Name()), ".jpg")"
IsFrame(e) == ~e.isDir /\ ToLower(e.ext) = "jpg"

RECURSIVE SortedSeq(_)
SortedSeq(S) ==
    IF S = {} THEN << >>
    ELSE LET m == CHOOSE x \in S : \A y \in S : x <= y
         IN <<m>> \o SortedSeq(S \ {m})

\* ProcessVideo: the filter over the entries, then sort.Strings
ListFrames(fl) == SortedSeq({e.name : e \in {x \in fl : IsFrame(x)}})

\* a faulty variant of PreconditionError: the check of len(frames) left out
PreconditionFilesOnly(fl, fr) ==
    IF Cardinality(fl) = 0 THEN "noFrames" ELSE "nil"
\* ProcessVideo: the two checks made before processFrames is called
PreconditionError(fl, fr) ==
    IF Cardinality(fl) = 0 THEN "noFrames"
    ELSE IF Len(fr) = 0 THEN "noJpeg"
    ELSE "nil"

\* worker: "frame %d/%d failed: %v"
FrameError(item) == [FrameNum |-> item.FrameNum, Total |-> item.Total]

\* a faulty variant of Outcome: "continue" without the send on errorsChan
OutcomeDropsError(ok, item) ==
    [res |-> IF ok THEN <<AnalysisResult(item.FramePath)>> ELSE << >>,
     err |-> << >>]
\* worker: what one analyzed item puts on the results and errors channels
Outcome(ok, item) ==
    [res |-> IF ok THEN <<AnalysisResult(item.FramePath)>> ELSE << >>,
     err |-> IF ok THEN << >> ELSE <<FrameError(item)>>]

\* a faulty variant of AfterOutcome: the counter decremented for a failed
\* frame too
AfterOutcomeDecrements(ok) == "decrement"
\* a faulty variant of AfterOutcome: "return" in the place of "continue"
AfterOutcomeReturns(ok) == IF ok THEN "decrement" ELSE "done"
\* worker: where it goes after analyzeImage: on to the counter after a
\* result, back to the range loop ("continue") after an error
AfterOutcome(ok) == IF ok THEN "decrement" ELSE "range"

\* a faulty variant of AggregateErrors: one receive from errorsChan, the
\* way processVideo of video.go reports errors
FirstErrorOnly(msgs) ==
    IF Len(msgs) > 0 THEN [kind |-> "aggregate", msgs |-> <<msgs[1]>>]
    ELSE [kind |-> "nil"]
\* processFrames: the error made of the messages drained from errorsChan
AggregateErrors(msgs) ==
    IF Len(msgs) > 0 THEN [kind |-> "aggregate", msgs |-> msgs]
    ELSE [kind |-> "nil"]

\* a faulty variant of ItemOf: the loop index taken for the frame number
ItemZeroBased(fr, i) == WorkItem(fr[i], i - 1, Len(fr))
\* dispatcher: the WorkItem made of the i-th frame of the list (1-based)
ItemOf(fr, i) == WorkItem(fr[i], i, Len(fr))

\* a faulty variant of ChanCap: channels that hold one item
ChanCapOne(fr) == 1
\* processFrames: "make(chan ..., len(frames))", the capacity of the work,
\* results and errors channels
ChanCap(fr) == Len(fr)

\* a faulty variant of WaitReturns: no wait for the workers
WaitSkipped(counter) == TRUE
\* processFrames: "wg.Wait()" returns when the counter is zero
WaitReturns(counter) == counter = 0

Bump(h, f, field) == [h EXCEPT !.per[f][field] = @ + 1]

PriorRuns == {<< >>, <<AnalysisResult(1)>>}

Init ==
    /\ NewStorage("Storage")
    /\ \E prior \in PriorRuns :
         /\ fs = IF prior = << >>
                 THEN [dir |-> TRUE, st |-> "missing", content |-> << >>]
                 ELSE [dir |-> TRUE, st |-> "ok", content |-> prior]
         /\ hist = [prior |-> prior, per |-> [f \in FrameIds |-> NoHist]]
         /\ \E fr \in SUBSET FrameIds, extra \in SUBSET {SubDirEntry} :
              files = {FrameEntry(i) : i \in fr} \cup extra
                      \cup (IF prior = << >> THEN {} ELSE {ResultsEntry})
    /\ DriverIdle
    /\ SvcIdle
    /\ frames = << >>
    /\ workChan = << >> /\ workClosed = FALSE
    /\ resultsChan = << >> /\ resultsClosed = FALSE
    /\ errorsChan = << >> /\ errorsClosed = FALSE
    /\ wpc = [w \in Workers |-> "unstarted"]
    /\ work = [w \in Workers |-> WorkItem(0, 0, 0)]
    /\ wg = 0
    /\ remainingFrames = 0
    /\ dpc = 0
    /\ cpc = "unstarted"
    /\ cres = AnalysisResult(0)
    /\ mpc = "ProcessVideo"
    /\ retval = [kind |-> "none"]

\* ProcessVideo, up to the call of processFrames (analyzer.go 34-71)
ProcessVideo ==
    /\ mpc = "ProcessVideo"
    /\ \E ext \in {"nil", "extract", "readdir"} :
         LET fr == ListFrames(files)
             pre == PreconditionError(files, fr)
             e == IF ext # "nil" THEN ext ELSE pre
         IN /\ frames' = IF e = "nil" THEN fr ELSE << >>
            /\ mpc' = IF e = "nil" THEN "processFrames" ELSE "returned"
            /\ retval' = IF e = "nil" THEN retval ELSE [kind |-> e]
    /\ files' = {}
    /\ UNCHANGED <<storeVars, driverVars, svcVars, chanVars, wpc, work, wg,
                   remainingFrames, dpc, cpc, cres, hist>>

\* processFrames: the channels, the counter and the goroutines
\* (analyzer.go 75-125)
StartPool ==
    /\ mpc = "processFrames"
    /\ wpc' = [w \in Workers |-> "range"]
    /\ wg' = NumWorkers
    /\ remainingFrames' = Len(frames)
    /\ dpc' = 1
    /\ cpc' = "range"
    /\ mpc' = "wait"
    /\ UNCHANGED <<storeVars, driverVars, svcVars, files, frames, chanVars, work,
                   cres, retval, hist>>

\* every goroutine dies when main returns
Alive == mpc \in {"wait", "closeResults", "closeErrors", "flush",
                  "collectErrors", "returned"}

\* dispatcher: "workChan <- models.WorkItem{...}" (analyzer.go 110-116)
DispatchSend ==
    /\ Alive /\ dpc \in 1..Len(frames)
    /\ Len(workChan) < ChanCap(frames)
    /\ workChan' = Append(workChan, ItemOf(frames, dpc))
    /\ dpc' = dpc + 1
    /\ UNCHANGED <<storeVars, driverVars, svcVars, files, frames, workClosed,
                   resultsChan, resultsClosed, errorsChan, errorsClosed,
                   wpc, work, wg, remainingFrames, cpc, cres, mpc, retval, hist>>

\* dispatcher: "close(workChan)" (analyzer.go 117)
DispatchClose ==
    /\ Alive /\ dpc = Len(frames) + 1 /\ ~workClosed
    /\ workClosed' = TRUE
    /\ UNCHANGED <<storeVars, driverVars, svcVars, files, frames, workChan,
                   resultsChan, resultsClosed, errorsChan, errorsClosed,
                   wpc, work, wg, remainingFrames, dpc, cpc, cres, mpc,
                   retval, hist>>

\* worker: "for work := range workChan" takes an item (analyzer.go 89)
WorkerRecv(w) ==
    /\ Alive /\ wpc[w] = "range" /\ workChan # << >>
    /\ work' = [work EXCEPT ![w] = Head(workChan)]
    /\ workChan' = Tail(workChan)
    /\ wpc' = [wpc EXCEPT ![w] = "analyze"]
    /\ hist' = Bump(hist, Head(workChan).FramePath, "pulled")
    /\ UNCHANGED <<storeVars, driverVars, svcVars, files, frames, workClosed,
                   resultsChan, resultsClosed, errorsChan, errorsClosed,
                   wg, remainingFrames, dpc, cpc, cres, mpc, retval>>

\* worker: the range loop ends on the closed, empty channel; the deferred
\* wg.Done() runs (analyzer.go 88-89, 104)
WorkerExit(w) ==
    /\ Alive /\ wpc[w] = "range" /\ workChan = << >> /\ workClosed
    /\ wpc' = [wpc EXCEPT ![w] = "done"]
    /\ wg' = wg - 1
    /\ UNCHANGED <<storeVars, driverVars, svcVars, files, frames, chanVars, work,
                   remainingFrames, dpc, cpc, cres, mpc, retval, hist>>

\* worker: analyzeImage, then the send of the result or of the tagged error
\* (analyzer.go 90-100)
WorkerAnalyze(w) ==
    /\ Alive /\ wpc[w] = "analyze"
    /\ \E ok \in BOOLEAN :
         LET o == Outcome(ok, work[w])
             f == work[w].FramePath
             next == AfterOutcome(ok)
         IN /\ Len(resultsChan) + Len(o.res) <= ChanCap(frames)
            /\ Len(errorsChan) + Len(o.err) <= ChanCap(frames)
            /\ ~resultsClosed /\ ~errorsClosed
            /\ resultsChan' = resultsChan \o o.res
            /\ errorsChan' = errorsChan \o o.err
            /\ hist' = [hist EXCEPT !.per[f].calls = @ + 1,
                                    !.per[f].res = @ + Len(o.res),
                                    !.per[f].err = @ + Len(o.err)]
            /\ wpc' = [wpc EXCEPT ![w] = next]
            /\ wg' = IF next = "done" THEN wg - 1 ELSE wg
    /\ UNCHANGED <<storeVars, driverVars, svcVars, files, frames, workChan, workClosed,
                   resultsClosed, errorsClosed, work, remainingFrames, dpc,
                   cpc, cres, mpc, retval>>

\* worker: "remainingFrames.Add(-1)" (analyzer.go 102-103)
WorkerDecrement(w) ==
    /\ Alive /\ wpc[w] = "decrement"
    /\ remainingFrames' = remainingFrames - 1
    /\ wpc' = [wpc EXCEPT ![w] = "range"]
    /\ UNCHANGED <<storeVars, driverVars, svcVars, files, frames, chanVars, work, wg,
                   dpc, cpc, cres, mpc, retval, hist>>

\* collector: "for result := range resultsChan" takes a result
\* (analyzer.go 122)
CollectorRecv ==
    /\ Alive /\ cpc = "range" /\ resultsChan # << >>
    /\ cres' = Head(resultsChan)
    /\ resultsChan' = Tail(resultsChan)
    /\ cpc' = "add"
    /\ UNCHANGED <<storeVars, driverVars, svcVars, files, frames, workChan, workClosed,
                   resultsClosed, errorsChan, errorsClosed, wpc, work, wg,
                   remainingFrames, dpc, mpc, retval, hist>>

\* collector: "p.storage.AddResult(result)"; what it returns is not looked at
\* (analyzer.go 123)
CollectorAdd ==
    /\ Alive /\ cpc = "add"
    /\ \E io \in IOChoices(BatchFull(Append(results, cres))) :
         ApplyCall(AddResult(impl, results, fs, cres, io))
    /\ cpc' = "range"
    /\ UNCHANGED <<driverVars, svcVars, files, frames, chanVars, wpc, work, wg,
                   remainingFrames, dpc, cres, mpc, retval, hist>>

\* collector: the range loop ends on the closed, empty channel
CollectorExit ==
    /\ Alive /\ cpc = "range" /\ resultsChan = << >> /\ resultsClosed
    /\ cpc' = "done"
    /\ UNCHANGED <<storeVars, driverVars, svcVars, files, frames, chanVars, wpc, work,
                   wg, remainingFrames, dpc, cres, mpc, retval, hist>>

\* processFrames: "wg.Wait()" (analyzer.go 128)
MainWait ==
    /\ mpc = "wait" /\ WaitReturns(wg)
    /\ mpc' = "closeResults"
    /\ UNCHANGED <<storeVars, driverVars, svcVars, files, frames, chanVars, wpc, work,
                   wg, remainingFrames, dpc, cpc, cres, retval, hist>>

\* processFrames: "close(resultsChan)" (analyzer.go 129)
MainCloseResults ==
    /\ mpc = "closeResults"
    /\ resultsClosed' = TRUE
    /\ mpc' = "closeErrors"
    /\ UNCHANGED <<storeVars, driverVars, svcVars, files, frames, workChan, workClosed,
                   resultsChan, errorsChan, errorsClosed, wpc, work, wg,
                   remainingFrames, dpc, cpc, cres, retval, hist>>

\* processFrames: "close(errorsChan)" (analyzer.go 130)
MainCloseErrors ==
    /\ mpc = "closeErrors"
    /\ errorsClosed' = TRUE
    /\ mpc' = "flush"
    /\ UNCHANGED <<storeVars, driverVars, svcVars, files, frames, workChan, workClosed,
                   resultsChan, resultsClosed, errorsChan, wpc, work, wg,
                   remainingFrames, dpc, cpc, cres, retval, hist>>

\* processFrames: "p.storage.Flush()" and the return of its error
\* (analyzer.go 133-135)
MainFlush ==
    /\ mpc = "flush"
    /\ \E io \in IOChoices(results # << >>) :
         LET c == Flush(impl, results, fs, io) IN
         /\ ApplyCall(c)
         /\ mpc' = IF c.err = "nil" THEN "collectErrors" ELSE "returned"
         /\ retval' = IF c.err = "nil" THEN retval
                      ELSE [kind |-> "flush", cause |-> c.err]
    /\ UNCHANGED <<driverVars, svcVars, files, frames, chanVars, wpc, work, wg,
                   remainingFrames, dpc, cpc, cres, hist>>

\* processFrames: the drain of the closed errorsChan and the return
\* (analyzer.go 138-146)
MainCollectErrors ==
    /\ mpc = "collectErrors"
    /\ errorsClosed
    /\ errorsChan' = << >>
    /\ retval' = AggregateErrors(errorsChan)
    /\ mpc' = "returned"
    /\ UNCHANGED <<storeVars, driverVars, svcVars, files, frames, workChan, workClosed,
                   resultsChan, resultsClosed, errorsClosed, wpc, work, wg,
                   remainingFrames, dpc, cpc, cres, hist>>

\* main returns after ProcessVideo (cmd/visionanalyzer/main.go): the process
\* and every goroutine of it end
ProgramExit ==
    /\ mpc = "returned"
    /\ mpc' = "exited"
    /\ UNCHANGED <<storeVars, driverVars, svcVars, files, frames, chanVars, wpc, work,
                   wg, remainingFrames, dpc, cpc, cres, retval, hist>>

Next ==
    \/ ProcessVideo
    \/ StartPool
    \/ DispatchSend
    \/ DispatchClose
    \/ \E w \in Workers : WorkerRecv(w)
    \/ \E w \in Workers : WorkerExit(w)
    \/ \E w \in Workers : WorkerAnalyze(w)
    \/ \E w \in Workers : WorkerDecrement(w)
    \/ CollectorRecv
    \/ CollectorAdd
    \/ CollectorExit
    \/ MainWait
    \/ MainCloseResults
    \/ MainCloseErrors
    \/ MainFlush
    \/ MainCollectErrors
    \/ ProgramExit

Spec == Init /\ [][Next]_vars

\* The goroutines of processFrames, each as one process.
Dispatcher == DispatchSend \/ DispatchClose

Worker(w) ==
    WorkerRecv(w) \/ WorkerExit(w) \/ WorkerAnalyze(w) \/ WorkerDecrement(w)

Main ==
    \/ StartPool
    \/ MainWait
    \/ MainCloseResults
    \/ MainCloseErrors
    \/ MainFlush
    \/ MainCollectErrors

\* SpecLive: Spec, with the Go scheduler running every goroutine that can
\* run, every analyzeImage call returning, and the final Flush returning.
\* Nothing is asked of the results collector: it may take a result late, or
\* stay in AddResult, or never run.
Fairness ==
    /\ WF_vars(Dispatcher)
    /\ \A w \in Workers : WF_vars(Worker(w))
    /\ WF_vars(Main)

\* the runs whose directory holds at most LiveFrames frames
InitLive ==
    /\ Init
    /\ \A e \in files : IsFrame(e) => e.name \in 1..LiveFrames

SpecLive == InitLive /\ [][Next]_vars /\ Fairness

(***************************************************************************)
(* SpecEmb: the embedding service (internal/embeddings/embeddings.go).     *)
(* NewService(numWorkers) has run; any goroutine may call GetEmbedding,    *)
(* callers may read their result channel or never do, and one goroutine    *)
(* may call Close. A panic ends the process.                               *)
(***************************************************************************)
\* a store nothing is done with
StoreIdle ==
    /\ NewStorage("Storage")
    /\ fs = [dir |-> FALSE, st |-> "missing", content |-> << >>]

\* generateEmbedding: the placeholder body returns the same vector for
\* every content, and no error
generateEmbedding(c) == Result(c, "v", "nil")

\* worker: "if cachedEmb, ok := s.cache.Load(work.Content); ok"
CacheHit(ch, c) == ch[c] # NoVector

\* a faulty variant of AfterReceive: the item left in the queue
ItemLeftInQueue(q) == q
\* worker: "for work := range s.workQueue": the queue after a receive
AfterReceive(q) == Tail(q)

\* a faulty variant of RangeEnds: the loop left as soon as the queue is
\* closed
RangeEndsOnClose(q, closed) == closed
\* worker: "for work := range s.workQueue" ends when the queue is closed
\* and holds nothing more
RangeEnds(q, closed) == q = << >> /\ closed

\* a faulty variant of CacheStore: a second Store for a key writes another
\* vector than the first
CacheStoreDiffers(ch, c, res) ==
    IF res.Error = "nil"
    THEN [ch EXCEPT ![c] = IF @ = NoVector THEN res.Embedding ELSE "w"]
    ELSE ch
\* worker: "if err == nil { s.cache.Store(work.Content, embedding) }"
CacheStore(ch, c, res) ==
    IF res.Error = "nil" THEN [ch EXCEPT ![c] = res.Embedding] ELSE ch

\* a faulty variant of SelectSend: a plain send, without the default case
BlockingSend(q, closed) ==
    IF closed THEN "panic" ELSE IF Len(q) < QueueCap THEN "sent" ELSE "blocked"
\* GetEmbedding: "select { case s.workQueue <- Work{...}: default: ... }".
\* A send on a closed channel panics, in a select as anywhere else.
SelectSend(q, closed) ==
    IF closed THEN "panic" ELSE IF Len(q) < QueueCap THEN "sent" ELSE "default"

\* a faulty variant of ResultChanOf: one result channel for every request
SharedResultChan(r) == 1
\* GetEmbedding: "resultChan := make(chan Result, 1)", one for each call
ResultChanOf(r) == r

\* NewService + startWorkers
InitEmb ==
    /\ StoreIdle
    /\ DriverIdle
    /\ PipeIdle
    /\ LockIdle
    /\ AuxIdle
    /\ numWorkers \in 1..MaxEmbWorkers
    /\ workQueue = << >>
    /\ queueClosed = FALSE
    /\ cache = [c \in Contents |-> NoVector]
    /\ ewg = numWorkers
    /\ ewpc = [w \in EmbWorkers |-> IF w <= numWorkers THEN "range" ELSE "unstarted"]
    /\ ework = [w \in EmbWorkers |-> NoWork]
    /\ eres = [w \in EmbWorkers |-> NoResult]
    /\ resultChan = [r \in Requests |-> NewResultChan]
    /\ nReq = 0
    /\ lastCall = NoEmbCall
    /\ closer = "idle"
    /\ panicked = FALSE
    /\ ehist = NoEmbHist
    /\ PgIdle
    /\ SearchIdle

EmbFrame ==
    UNCHANGED <<storeVars, driverVars, pipeVars, pgVars, searchVars, lockVars, auxVars,
                numWorkers>>

\* GetEmbedding(content): the whole call
GetEmbedding(c) ==
    /\ ~panicked
    /\ nReq < MaxRequests
    /\ LET r == nReq + 1
           ch == ResultChanOf(r)
           o == SelectSend(workQueue, queueClosed)
       IN
       /\ nReq' = r
       /\ lastCall' = [req |-> r, content |-> c, outcome |-> o]
       /\ workQueue' = IF o = "sent" THEN Append(workQueue, Work(c, ch))
                                     ELSE workQueue
       /\ resultChan' =
            IF o = "default"
            THEN [resultChan EXCEPT ![ch] =
                    [buf |-> Append(@.buf, Result(c, NoVector, "queue full")),
                     closed |-> TRUE]]
            ELSE resultChan
       /\ ehist' = IF o = "default"
                   THEN [ehist EXCEPT !.sent[ch] = @ + 1]
                   ELSE ehist
       /\ panicked' = (o = "panic")
    /\ UNCHANGED <<queueClosed, cache, ewg, ewpc, ework, eres, closer>>
    /\ EmbFrame

\* worker: "for work := range s.workQueue", an item received
EmbWorkerRecv(w) ==
    /\ ~panicked
    /\ ewpc[w] = "range"
    /\ workQueue # << >>
    /\ ework' = [ework EXCEPT ![w] = Head(workQueue)]
    /\ workQueue' = AfterReceive(workQueue)
    /\ ewpc' = [ewpc EXCEPT ![w] = "load"]
    /\ UNCHANGED <<queueClosed, cache, ewg, eres, resultChan, nReq, lastCall,
                   closer, panicked, ehist>>
    /\ EmbFrame

\* worker: the range ends on a closed and drained queue; "defer s.wg.Done()"
EmbWorkerExit(w) ==
    /\ ~panicked
    /\ ewpc[w] = "range"
    /\ RangeEnds(workQueue, queueClosed)
    /\ ewpc' = [ewpc EXCEPT ![w] = "done"]
    /\ ewg' = ewg - 1
    /\ UNCHANGED <<workQueue, queueClosed, cache, ework, eres, resultChan, nReq,
                   lastCall, closer, panicked, ehist>>
    /\ EmbFrame

\* worker: the cache check
EmbWorkerLoad(w) ==
    /\ ~panicked
    /\ ewpc[w] = "load"
    /\ LET c == ework[w].Content IN
       IF CacheHit(cache, c)
       THEN /\ eres' = [eres EXCEPT ![w] = Result(c, cache[c], "nil")]
            /\ ewpc' = [ewpc EXCEPT ![w] = "send"]
       ELSE /\ eres' = eres
            /\ ewpc' = [ewpc EXCEPT ![w] = "generate"]
    /\ UNCHANGED <<workQueue, queueClosed, cache, ewg, ework, resultChan, nReq,
                   lastCall, closer, panicked, ehist>>
    /\ EmbFrame

\* worker: "embedding, err := s.generateEmbedding(...)"
EmbWorkerGenerate(w) ==
    /\ ~panicked
    /\ ewpc[w] = "generate"
    /\ LET c == ework[w].Content IN
       /\ eres' = [eres EXCEPT ![w] = generateEmbedding(c)]
       /\ ehist' = [ehist EXCEPT
                      !.gen[c] = @ + 1,
                      !.genAfterStore[c] = IF cache[c] # NoVector THEN @ + 1 ELSE @]
    /\ ewpc' = [ewpc EXCEPT ![w] = "store"]
    /\ UNCHANGED <<workQueue, queueClosed, cache, ewg, ework, resultChan, nReq,
                   lastCall, closer, panicked>>
    /\ EmbFrame

\* worker: "if err == nil { s.cache.Store(work.Content, embedding) }"
EmbWorkerStore(w) ==
    /\ ~panicked
    /\ ewpc[w] = "store"
    /\ cache' = CacheStore(cache, ework[w].Content, eres[w])
    /\ ewpc' = [ewpc EXCEPT ![w] = "send"]
    /\ UNCHANGED <<workQueue, queueClosed, ewg, ework, eres, resultChan, nReq,
                   lastCall, closer, panicked, ehist>>
    /\ EmbFrame

\* worker: "work.Result <- Result{...}"; the send waits while the channel's
\* buffer is full, and panics on a closed channel
EmbWorkerSend(w) ==
    /\ ~panicked
    /\ ewpc[w] = "send"
    /\ LET ch == ework[w].Result IN
       /\ resultChan[ch].closed \/ Len(resultChan[ch].buf) < 1
       /\ IF resultChan[ch].closed
          THEN /\ panicked' = TRUE
               /\ UNCHANGED <<resultChan, ehist, ewpc>>
          ELSE /\ panicked' = FALSE
               /\ resultChan' = [resultChan EXCEPT ![ch].buf = Append(@, eres[w])]
               /\ ehist' = [ehist EXCEPT !.sent[ch] = @ + 1]
               /\ ewpc' = [ewpc EXCEPT ![w] = "range"]
    /\ UNCHANGED <<workQueue, queueClosed, cache, ewg, ework, eres, nReq,
                   lastCall, closer>>
    /\ EmbFrame

\* the caller of request r: "<-resultChan"
Receive(r) ==
    /\ ~panicked
    /\ r <= nReq
    /\ ehist.got[r] = "nothing"
    /\ LET ch == ResultChanOf(r) IN
       /\ resultChan[ch].buf # << >>
       /\ ehist' = [ehist EXCEPT !.got[r] =
                        IF Head(resultChan[ch].buf).Error = "nil"
                        THEN Head(resultChan[ch].buf).Embedding
                        ELSE "error"]
       /\ resultChan' = [resultChan EXCEPT ![ch].buf = Tail(@)]
    /\ UNCHANGED <<workQueue, queueClosed, cache, ewg, ewpc, ework, eres, nReq,
                   lastCall, closer, panicked>>
    /\ EmbFrame

\* Close: "close(s.workQueue)"
CloseQueue ==
    /\ ~panicked
    /\ closer = "idle"
    /\ queueClosed' = TRUE
    /\ closer' = "waiting"
    /\ ehist' = [ehist EXCEPT !.atClose =
                    \E r \in 1..nReq : ~resultChan[r].closed /\ ehist.sent[r] = 0]
    /\ UNCHANGED <<workQueue, cache, ewg, ewpc, ework, eres, resultChan, nReq,
                   lastCall, panicked>>
    /\ EmbFrame

\* Close: "s.wg.Wait()" returns
CloseReturn ==
    /\ ~panicked
    /\ closer = "waiting"
    /\ ewg = 0
    /\ closer' = "returned"
    /\ UNCHANGED <<workQueue, queueClosed, cache, ewg, ewpc, ework, eres,
                   resultChan, nReq, lastCall, panicked, ehist>>
    /\ EmbFrame

NextEmb ==
    \/ \E c \in Contents : GetEmbedding(c)
    \/ \E w \in EmbWorkers : EmbWorkerRecv(w)
    \/ \E w \in EmbWorkers : EmbWorkerExit(w)
    \/ \E w \in EmbWorkers : EmbWorkerLoad(w)
    \/ \E w \in EmbWorkers : EmbWorkerGenerate(w)
    \/ \E w \in EmbWorkers : EmbWorkerStore(w)
    \/ \E w \in EmbWorkers : EmbWorkerSend(w)
    \/ \E r \in Requests : Receive(r)
    \/ CloseQueue
    \/ CloseReturn

SpecEmb == InitEmb /\ [][NextEmb]_vars

\* A worker goroutine of the service, as one process.
EmbWorker(w) ==
    \/ EmbWorkerRecv(w)
    \/ EmbWorkerExit(w)
    \/ EmbWorkerLoad(w)
    \/ EmbWorkerGenerate(w)
    \/ EmbWorkerStore(w)
    \/ EmbWorkerSend(w)

\* the steps of the service whose callers ask for the first LiveContents
\* contents only (which content is asked for decides a cache hit or miss,
\* never whether a result is sent)
NextEmbLive == NextEmb /\ lastCall'.content <= LiveContents

\* SpecEmbLive: the service with the Go scheduler running every worker
\* that can run and generateEmbedding returning. Nothing is asked of the
\* callers: they may read their result, or never.
SpecEmbLive ==
    /\ InitEmb
    /\ [][NextEmbLive]_vars
    /\ \A w \in EmbWorkers : WF_vars(EmbWorker(w))

(***************************************************************************)
(* SpecPg: the relational store (PostgresStorage.AddResult), on the schema *)
(* InitSchema and UpdateSchema create. BatchAddResults has been called     *)
(* with MaxPgCalls results: each AddResult call runs in its own goroutine; *)
(* every SQL statement is one step. The embedding service is seen from the *)
(* caller's side: a request is answered by a vector or by the "queue full" *)
(* error.                                                                  *)
(***************************************************************************)
\* "s.videoID"
VideoId == 1

\* the file names AddResult is called with
PgNames ==
    {FrameName("", <<0, 0, 0, 1>>, ".jpg"),
     FrameName("", <<1>>, ".jpg"),
     FrameName("", <<0, 0, 0, 2>>, ".jpg"),
     FrameName("out/", <<0, 0, 0, 1>>, ".jpg")}

PgContents == {"a", "b"}

RECURSIVE DigitsValue(_)
DigitsValue(d) ==
    IF d = << >> THEN 0 ELSE 10 * DigitsValue(SubSeq(d, 1, Len(d) - 1)) + d[Len(d)]

\* AddResult: fmt.Sscanf(frameName, "frame_%04d.jpg", &frameNum). The
\* input has to start with "frame_"; %04d takes at most four digits; the
\* text after them has to start with ".jpg".
Sscanf(name) ==
    IF name.dir # "" \/ name.digits = << >> \/ Len(name.digits) > 4
       \/ name.ext # ".jpg"
    THEN [err |-> "format", frameNum |-> 0]
    ELSE [err |-> "nil", frameNum |-> DigitsValue(name.digits)]

FrameRow(id, num, name) ==
    [id |-> id, video_id |-> VideoId, frame_number |-> num, frame_path |-> name]

AnalysisRow(id, fid, content, emb) ==
    [id |-> id, frame_id |-> fid, content |-> content, embedding |-> emb]

\* rows of table frames with "video_id = $1 AND frame_number = $2"
FramesNumbered(rows, num) ==
    {f \in rows : f.video_id = VideoId /\ f.frame_number = num}

\* "EXISTS(SELECT 1 FROM analyses a WHERE a.frame_id = f.id AND
\*  a.embedding IS NOT NULL)"
HasEmbedding(rows, fid) ==
    \E a \in rows : a.frame_id = fid /\ a.embedding # Null

\* a faulty variant of AlreadyProcessed: the frame never taken as processed
NeverProcessed(hasEmbedding) == FALSE
\* AddResult: "if hasEmbedding { ...; return nil }"
AlreadyProcessed(hasEmbedding) == hasEmbedding

\* a faulty variant of FrameConflict: table frames without its constraint
NoFrameConstraint(rows, num) == FALSE
\* InitSchema: "UNIQUE(video_id, frame_number)" rejects the insert
FrameConflict(rows, num) == FramesNumbered(rows, num) # {}

\* UpdateSchema: "UNIQUE (frame_id)", the conflict target of the upsert
AnalysisConflict(rows, fid) == \E a \in rows : a.frame_id = fid

\* a faulty variant of Upsert: a plain INSERT into a table without the
\* constraint
InsertOnly(rows, id, fid, content, emb) ==
    rows \cup {AnalysisRow(id, fid, content, emb)}
\* "INSERT INTO analyses ... ON CONFLICT (frame_id) DO UPDATE SET
\*  content = $2, embedding = $3, created_at = $4"
Upsert(rows, id, fid, content, emb) ==
    IF AnalysisConflict(rows, fid)
    THEN {IF a.frame_id = fid
          THEN [a EXCEPT !.content = content, !.embedding = emb]
          ELSE a : a \in rows}
    ELSE rows \cup {AnalysisRow(id, fid, content, emb)}

\* a faulty variant of EmbeddingOf: no embedding written after an error
EmbeddingOrNull(res) == IF res.Error # "nil" THEN Null ELSE res.Embedding
\* AddResult: the embedding written: the service's, or the fallback
\* []float32{0.1, 0.2, 0.3, 0.4} (the vector generateEmbedding returns too)
EmbeddingOf(res) == IF res.Error # "nil" THEN "v" ELSE res.Embedding

\* the tables an earlier run has left
InitialTables ==
    {[frames |-> {}, analyses |-> {}],
     [frames |-> {FrameRow(1, 1, FrameName("", <<0, 0, 0, 1>>, ".jpg"))},
      analyses |-> {}],
     [frames |-> {FrameRow(1, 1, FrameName("", <<0, 0, 0, 1>>, ".jpg"))},
      analyses |-> {AnalysisRow(1, 1, "a", Null)}],
     [frames |-> {FrameRow(1, 1, FrameName("", <<0, 0, 0, 1>>, ".jpg"))},
      analyses |-> {AnalysisRow(1, 1, "a", "v")}]}

InitPg ==
    /\ StoreIdle
    /\ DriverIdle
    /\ PipeIdle
    /\ LockIdle
    /\ AuxIdle
    /\ EmbIdle
    /\ \E t \in InitialTables :
         /\ frameRows = t.frames
         /\ analysisRows = t.analyses
         /\ frameSeq = Cardinality(t.frames) + 1
         /\ analysisSeq = Cardinality(t.analyses) + 1
    /\ pgpc = [p \in PgCalls |-> "idle"]
    /\ pgarg = [p \in PgCalls |-> NoArg]
    /\ pgloc = [p \in PgCalls |-> NoLoc]
    /\ pgret = [p \in PgCalls |-> "none"]
    /\ pghist = [p \in PgCalls |-> 0]
    /\ batchCall = [NoBatch EXCEPT !.pc = "running"]
    /\ SearchIdle

PgFrame ==
    UNCHANGED <<storeVars, driverVars, pipeVars, embVars, searchVars, lockVars, auxVars>>

\* AddResult(ctx, result): the frame number is parsed from the file name
\* BatchAddResults: "semaphore := make(chan struct{}, 8)"
semaphoreCap == 8

\* BatchAddResults: "semaphore <- struct{}{}" can proceed
SemaphoreFree(pc) ==
    Cardinality({p \in PgCalls : pc[p] \notin {"idle", "done"}}) < semaphoreCap

\* a faulty variant of BatchError: the errors dropped
BatchErrorNever(n) == "nil"
\* BatchAddResults: "if len(errs) > 0 { return fmt.Errorf(...) }; return nil"
BatchError(n) == IF n > 0 THEN "encountered errors during batch processing" ELSE "nil"

PgAddResult(p, name, content) ==
    /\ pgpc[p] = "idle"
    /\ SemaphoreFree(pgpc)
    /\ pgarg' = [pgarg EXCEPT ![p] = [Frame |-> name, Content |-> content]]
    /\ LET sc == Sscanf(name) IN
       IF sc.err # "nil"
       THEN /\ pgpc' = [pgpc EXCEPT ![p] = "done"]
            /\ pgret' = [pgret EXCEPT ![p] = "format"]
            /\ pgloc' = pgloc
       ELSE /\ pgpc' = [pgpc EXCEPT ![p] = "select"]
            /\ pgret' = pgret
            /\ pgloc' = [pgloc EXCEPT ![p].frameNum = sc.frameNum]
    /\ UNCHANGED <<frameRows, analysisRows, frameSeq, analysisSeq, pghist>>
    /\ UNCHANGED batchCall
    /\ PgFrame

\* AddResult: "SELECT f.id, EXISTS(...) FROM frames f WHERE ..." and the
\* branches on its result
PgSelect(p) ==
    /\ pgpc[p] = "select"
    /\ LET found == FramesNumbered(frameRows, pgloc[p].frameNum) IN
       IF found = {}
       THEN \* pgx.ErrNoRows
            /\ pgpc' = [pgpc EXCEPT ![p] = "insertFrame"]
            /\ UNCHANGED <<pgloc, pgret>>
       ELSE \E f \in found :
              /\ pgloc' = [pgloc EXCEPT ![p].frameID = f.id]
              /\ IF AlreadyProcessed(HasEmbedding(analysisRows, f.id))
                 THEN /\ pgpc' = [pgpc EXCEPT ![p] = "done"]
                      /\ pgret' = [pgret EXCEPT ![p] = "nil"]
                 ELSE /\ pgpc' = [pgpc EXCEPT ![p] = "embed"]
                      /\ pgret' = pgret
    /\ UNCHANGED <<frameRows, analysisRows, frameSeq, analysisSeq, pgarg, pghist>>
    /\ UNCHANGED batchCall
    /\ PgFrame

\* AddResult: "INSERT INTO frames ... RETURNING id"
PgInsertFrame(p) ==
    /\ pgpc[p] = "insertFrame"
    /\ frameSeq' = frameSeq + 1
    /\ IF FrameConflict(frameRows, pgloc[p].frameNum)
       THEN /\ pgpc' = [pgpc EXCEPT ![p] = "done"]
            /\ pgret' = [pgret EXCEPT ![p] = "failed to store frame information"]
            /\ UNCHANGED <<frameRows, pgloc>>
       ELSE /\ frameRows' = frameRows \cup
                              {FrameRow(frameSeq, pgloc[p].frameNum, pgarg[p].Frame)}
            /\ pgloc' = [pgloc EXCEPT ![p].frameID = frameSeq]
            /\ pgpc' = [pgpc EXCEPT ![p] = "embed"]
            /\ pgret' = pgret
    /\ UNCHANGED <<analysisRows, analysisSeq, pgarg, pghist>>
    /\ UNCHANGED batchCall
    /\ PgFrame

\* AddResult: GetEmbedding, the receive of its result, and the choice of
\* the embedding to write
PgEmbed(p) ==
    /\ pgpc[p] = "embed"
    /\ pghist' = [pghist EXCEPT ![p] = @ + 1]
    /\ \E res \in {Result(pgarg[p].Content, "v", "nil"),
                   Result(pgarg[p].Content, NoVector, "queue full")} :
         pgloc' = [pgloc EXCEPT ![p].embedding = EmbeddingOf(res),
                                ![p].embErr = res.Error]
    /\ pgpc' = [pgpc EXCEPT ![p] = "upsert"]
    /\ UNCHANGED <<frameRows, analysisRows, frameSeq, analysisSeq, pgarg, pgret>>
    /\ UNCHANGED batchCall
    /\ PgFrame

\* AddResult: the upsert of the analysis, and "return nil"
PgUpsert(p) ==
    /\ pgpc[p] = "upsert"
    /\ analysisRows' = Upsert(analysisRows, analysisSeq, pgloc[p].frameID,
                              pgarg[p].Content, pgloc[p].embedding)
    /\ analysisSeq' = analysisSeq + 1
    /\ pgpc' = [pgpc EXCEPT ![p] = "done"]
    /\ pgret' = [pgret EXCEPT ![p] = "nil"]
    /\ UNCHANGED <<frameRows, frameSeq, pgarg, pgloc, pghist>>
    /\ UNCHANGED batchCall
    /\ PgFrame

\* BatchAddResults: "wg.Wait()" has returned; the errors are counted and
\* the call returns
BatchReturn ==
    /\ batchCall.pc = "running"
    /\ \A p \in PgCalls : pgpc[p] = "done"
    /\ LET errs == Cardinality({p \in PgCalls : pgret[p] # "nil"}) IN
       batchCall' = [pc |-> "returned", err |-> BatchError(errs), failed |-> errs]
    /\ UNCHANGED <<frameRows, analysisRows, frameSeq, analysisSeq, pgpc, pgarg,
                   pgloc, pgret, pghist>>
    /\ PgFrame

NextPg ==
    \/ \E p \in PgCalls, name \in PgNames, content \in PgContents :
          PgAddResult(p, name, content)
    \/ \E p \in PgCalls : PgSelect(p)
    \/ \E p \in PgCalls : PgInsertFrame(p)
    \/ \E p \in PgCalls : PgEmbed(p)
    \/ \E p \in PgCalls : PgUpsert(p)
    \/ BatchReturn

SpecPg == InitPg /\ [][NextPg]_vars

(***************************************************************************)
(* SpecSearch: one call of TextSearchFrames or SearchSimilarFrames (they   *)
(* change nothing) on the tables an ingestion of this video and of another *)
(* one has left. A text is a sequence of characters. A stored embedding is *)
(* named by its direction relative to the vector the embedding service     *)
(* returns ("v").                                                          *)
(***************************************************************************)
\* lower(c), as ILIKE compares
LowerChar(c) == IF c = "C" THEN "c" ELSE c

\* s LIKE p, case-insensitively: "%" stands for any text, "_" for any one
\* character
RECURSIVE ILike(_, _)
ILike(t, pat) ==
    IF pat = << >> THEN t = << >>
    ELSE IF Head(pat) = "%"
         THEN ILike(t, Tail(pat)) \/ (t # << >> /\ ILike(Tail(t), pat))
    ELSE IF t = << >> THEN FALSE
    ELSE /\ Head(pat) = "_" \/ LowerChar(Head(t)) = LowerChar(Head(pat))
         /\ ILike(Tail(t), Tail(pat))

\* TextSearchFrames: the pattern "%"+query+"%"
ILikePattern(query) == <<"%">> \o query \o <<"%">>

\* unit vectors along which the stored embeddings point
Direction(e) ==
    CASE e = "v" -> <<1, 0>>
      [] e = "u" -> <<0, 1>>
      [] e = "w" -> <<-1, 0>>

\* pgvector's "<=>": the cosine distance, 1 - cos; NULL for a NULL operand
CosineDistance(e, q) ==
    IF e = Null \/ q = Null THEN Null
    ELSE 1 - (Direction(e)[1] * Direction(q)[1] + Direction(e)[2] * Direction(q)[2])

\* "FROM analyses a JOIN frames f ON a.frame_id = f.id JOIN videos v ON
\*  f.video_id = v.id WHERE v.id = $2"
Joined(fr, an) ==
    {j \in [f : {g \in fr : g.video_id = VideoId}, a : an] : j.a.frame_id = j.f.id}

\* a faulty variant of Nearest: any row may come next
AnyRow(rows, q) == rows
\* "ORDER BY a.embedding <=> $1": the rows that may come first; NULL
\* distances sort last
Nearest(rows, q) ==
    {r \in rows :
        \A o \in rows :
            \/ o.a.embedding = Null
            \/ /\ r.a.embedding # Null
               /\ CosineDistance(r.a.embedding, q) <= CosineDistance(o.a.embedding, q)}

\* "ORDER BY f.frame_number": the row that comes first
LowestNumbered(rows) ==
    {r \in rows : \A o \in rows : r.f.frame_number <= o.f.frame_number}

\* "ORDER BY a.embedding <=> $1 LIMIT $3": the row sequences the query may
\* return
RECURSIVE TopByDistance(_, _, _)
TopByDistance(rows, q, k) ==
    IF k = 0 \/ rows = {} THEN {<< >>}
    ELSE UNION {{<<r>> \o t : t \in TopByDistance(rows \ {r}, q, k - 1)}
                : r \in Nearest(rows, q)}

\* "ORDER BY f.frame_number LIMIT $3"
RECURSIVE TopByNumber(_, _)
TopByNumber(rows, k) ==
    IF k = 0 \/ rows = {} THEN {<< >>}
    ELSE UNION {{<<r>> \o t : t \in TopByNumber(rows \ {r}, k - 1)}
                : r \in LowestNumbered(rows)}

\* models.FrameSearchResult
FrameSearchResult(num, path, desc, sim) ==
    [FrameNumber |-> num, FramePath |-> path, Description |-> desc,
     Similarity |-> sim]

\* SearchSimilarFrames: "1 - (a.embedding <=> $1) AS similarity"
SimilarityOf(e, q) ==
    IF e = Null \/ q = Null THEN Null ELSE 1 - CosineDistance(e, q)

\* a faulty variant of NoMatches: an empty match set returned as it is
NoMatchesAccepted(res) == FALSE
\* TextSearchFrames: "if len(results) == 0"
NoMatches(res) == Len(res) = 0

\* TextSearchFrames(ctx, query, limit): what the call may return
TextSearchFrames(fr, an, query, limit) ==
    LET count == Cardinality({f \in fr : f.video_id = VideoId})
        matching == {j \in Joined(fr, an) :
                        ILike(j.a.content, ILikePattern(query))}
        scan(rows) == [i \in 1..Len(rows) |->
                         FrameSearchResult(rows[i].f.frame_number,
                                           rows[i].f.frame_path,
                                           rows[i].a.content, "0.5")]
    IN
    IF count = 0
    THEN {[err |-> "no frames found for video", results |-> << >>]}
    ELSE IF limit < 0
    THEN \* PostgreSQL: LIMIT must not be negative
         {[err |-> "failed to search frames", results |-> << >>]}
    ELSE {IF NoMatches(scan(rows))
          THEN [err |-> "no frames found containing", results |-> << >>]
          ELSE [err |-> "nil", results |-> scan(rows)]
          : rows \in TopByNumber(matching, limit)}

\* SearchSimilarFrames(ctx, query, limit): what the call may return, given
\* the embedding service's answer to the request for the query
SearchSimilarFrames(fr, an, embRes, limit) ==
    LET q == embRes.Embedding
        scan(rows) == [i \in 1..Len(rows) |->
                         FrameSearchResult(rows[i].f.frame_number,
                                           rows[i].f.frame_path,
                                           rows[i].a.content,
                                           SimilarityOf(rows[i].a.embedding, q))]
    IN
    IF embRes.Error # "nil"
    THEN {[err |-> "failed to generate query embedding", results |-> << >>]}
    ELSE IF limit < 0
    THEN {[err |-> "failed to search similar frames", results |-> << >>]}
    ELSE {IF \E i \in 1..Len(rows) : rows[i].a.embedding = Null
          THEN \* a NULL similarity does not scan into a float64
               [err |-> "failed to scan search results", results |-> << >>]
          ELSE [err |-> "nil", results |-> scan(rows)]
          : rows \in TopByDistance(Joined(fr, an), q, limit)}

\* the analysis a frame of the searched tables has, if any
AnalysisOptions ==
    {[has |-> FALSE, content |-> << >>, embedding |-> Null]}
    \cup [has : {TRUE}, content : {<<"C", "x">>, <<"x">>},
          embedding : {"v", "u", "w", Null}]

\* a frame of another video, analysed
OtherVideoFrame ==
    [FrameRow(SearchFrames + 1, SearchFrames + 1,
              FrameName("", <<0, 0, 0, 9>>, ".jpg")) EXCEPT !.video_id = VideoId + 1]

SearchTables ==
    UNION {{[frames |-> {FrameRow(i, i, FrameName("", <<0, 0, 0, i>>, ".jpg"))
                            : i \in 1..k} \cup {OtherVideoFrame},
             analyses |-> {AnalysisRow(i, i, o[i].content, o[i].embedding)
                            : i \in {n \in 1..k : o[n].has}}
                          \cup {AnalysisRow(SearchFrames + 1, SearchFrames + 1,
                                            <<"C">>, "v")}]
            : o \in [1..k -> AnalysisOptions]}
           : k \in 0..SearchFrames}

SearchQueries == {<<"c">>, <<"x", "c">>, <<"%">>, <<"_", "_">>, <<"z">>}

SearchLimits == (-1)..MaxLimit

InitSearch ==
    /\ StoreIdle
    /\ DriverIdle
    /\ PipeIdle
    /\ LockIdle
    /\ AuxIdle
    /\ EmbIdle
    /\ \E t \in SearchTables :
         /\ frameRows = t.frames
         /\ analysisRows = t.analyses
    /\ frameSeq = SearchFrames + 2
    /\ analysisSeq = SearchFrames + 2
    /\ pgpc = [p \in PgCalls |-> "idle"]
    /\ pgarg = [p \in PgCalls |-> NoArg]
    /\ pgloc = [p \in PgCalls |-> NoLoc]
    /\ pgret = [p \in PgCalls |-> "none"]
    /\ pghist = [p \in PgCalls |-> 0]
    /\ batchCall = NoBatch
    /\ SearchIdle

SearchFrame ==
    UNCHANGED <<storeVars, driverVars, pipeVars, embVars, pgVars, lockVars, auxVars>>

TextSearch(query, limit) ==
    /\ sres = NoSearch
    /\ \E r \in TextSearchFrames(frameRows, analysisRows, query, limit) :
         sres' = [op |-> "TextSearchFrames", query |-> query, limit |-> limit,
                  err |-> r.err, results |-> r.results]
    /\ SearchFrame

SimilarSearch(query, limit) ==
    /\ sres = NoSearch
    /\ \E embRes \in {Result(query, "v", "nil"),
                      Result(query, NoVector, "queue full")} :
         \E r \in SearchSimilarFrames(frameRows, analysisRows, embRes, limit) :
            sres' = [op |-> "SearchSimilarFrames", query |-> query,
                     limit |-> limit, err |-> r.err, results |-> r.results]
    /\ SearchFrame

NextSearch ==
    \/ \E query \in SearchQueries, limit \in SearchLimits : TextSearch(query, limit)
    \/ \E query \in SearchQueries, limit \in SearchLimits : SimilarSearch(query, limit)

SpecSearch == InitSearch /\ [][NextSearch]_vars

(***************************************************************************)
(* Properties of the pipeline.                                             *)
(***************************************************************************)
Started == cpc # "unstarted"

\* every worker goroutine has left its loop (wg.Wait() can return)
PoolDrained == Started /\ \A w \in Workers : wpc[w] = "done"

\* processFrames has returned (ProcessVideo returns what it returns)
Returned ==
    /\ mpc \in {"returned", "exited"}
    /\ retval.kind \in {"flush", "aggregate", "nil"}

FrameSet == Range(frames)

Succeeded == {f \in FrameIds : hist.per[f].res > 0}
Failed == {f \in FrameIds : hist.per[f].err > 0}

Count(f, s) == Cardinality({i \in 1..Len(s) : s[i].Frame = f})

\* the tagged error of the frame at position i of the list
ErrorOfFrame(i) == [FrameNum |-> i, Total |-> Len(frames)]

ExpectedErrors == {ErrorOfFrame(i) : i \in {j \in 1..Len(frames) : frames[j] \in Failed}}

\* C1: every frame has at most one outcome at any time; once the workers
\* are done, every frame of the list has exactly one (a result sent on
\* resultsChan or an error sent on errorsChan), no other frame has any, and
\* results plus errors number N.
C1_ExactlyNOutcomes ==
    /\ \A f \in FrameIds : hist.per[f].res + hist.per[f].err <= 1
    /\ PoolDrained =>
          /\ \A f \in FrameSet : hist.per[f].res + hist.per[f].err = 1
          /\ \A f \in FrameIds \ FrameSet : hist.per[f].res + hist.per[f].err = 0
          /\ Cardinality(Succeeded) + Cardinality(Failed) = Len(frames)
          /\ Len(frames) >= 1

C1_Witness ==
    /\ PoolDrained
    /\ Len(frames) = 3
    /\ Cardinality(Succeeded) = 2
    /\ Cardinality(Failed) = 1

\* C2: when processFrames has returned without a flush error, every result
\* a worker emitted is in the results file: none is still in resultsChan, in
\* the collector's hands or in the batch.
C2_EmittedArePersisted ==
    (mpc = "returned" /\ retval.kind \in {"nil", "aggregate"}) =>
        /\ \A f \in FrameIds :
              Count(f, Stored(fs)) >= Count(f, hist.prior) + hist.per[f].res
        /\ resultsChan = << >>
        /\ cpc # "add"
        /\ results = << >>

\* C3: no work item is pulled twice and the model is never called twice for
\* a frame; a worker leaves its loop only when workChan is closed and
\* empty (after a failure it goes on with the next item); every error on
\* errorsChan carries the index of its frame and the total; and once the
\* workers are done every frame of the list was pulled once and analyzed
\* once, whichever frames failed.
C3_EachFrameOnce ==
    /\ \A f \in FrameIds :
          /\ hist.per[f].pulled <= 1
          /\ hist.per[f].calls <= hist.per[f].pulled
    /\ \A w \in Workers : wpc[w] = "done" => (workChan = << >> /\ workClosed)
    /\ \A i \in 1..Len(errorsChan) :
          /\ errorsChan[i].Total = Len(frames)
          /\ errorsChan[i].FrameNum \in 1..Len(frames)
          /\ frames[errorsChan[i].FrameNum] \in Failed
    /\ PoolDrained =>
          /\ \A f \in FrameSet : hist.per[f].pulled = 1 /\ hist.per[f].calls = 1
          /\ \A f \in FrameIds \ FrameSet : hist.per[f].pulled = 0
          /\ dpc = Len(frames) + 1

C3_Witness ==
    /\ PoolDrained
    /\ Len(frames) = 3
    /\ frames[1] \in Failed
    /\ frames[2] \in Failed
    /\ frames[3] \in Succeeded

NoFrameIn(fl) == \A e \in fl : e.isDir \/ (e.ext # "jpg" /\ e.ext # "JPG")

NothingStarted ==
    /\ \A w \in Workers : wpc[w] = "unstarted"
    /\ cpc = "unstarted" /\ dpc = 0 /\ wg = 0
    /\ \A f \in FrameIds : hist.per[f] = NoHist
    /\ ret = NoCall
    /\ results = << >>
    /\ Stored(fs) = hist.prior

\* C5: when the frame directory yields zero frames (no entries, or none
\* that is a .jpg file), ProcessVideo returns a precondition error; and
\* with that error returned no worker was started, the model was not called
\* and the store was not called.
C5_ZeroFramesIsFatal ==
    /\ [][ (mpc = "ProcessVideo" /\ mpc' # mpc /\ NoFrameIn(files)
              /\ retval'.kind \notin {"extract", "readdir"})
           => /\ mpc' = "returned"
              /\ retval'.kind = (IF files = {} THEN "noFrames" ELSE "noJpeg")
         ]_vars
    /\ [](retval.kind \in {"noFrames", "noJpeg"} =>
             (mpc \in {"returned", "exited"} /\ NothingStarted))
    /\ [](Started => Len(frames) >= 1)

C5_Witness ==
    /\ mpc = "returned"
    /\ retval.kind = "noJpeg"
    /\ NothingStarted

(***************************************************************************)
(* Properties of the file store.                                           *)
(***************************************************************************)
FramesOf(s) == [i \in 1..Len(s) |-> s[i].Frame]

ResultsOfFrames(a, b) == [i \in 1..(b - a + 1) |-> AnalysisResult(a + i - 1)]

ImplicitLog == SelectSeq(flushLog, LAMBDA e : e.op = "AddResult")

EveryWriteSucceeded == \A i \in 1..Len(flushLog) : flushLog[i].err = "nil"

\* What C6 says of a run of N AddResult calls and one Flush: the implicit
\* flushes are those after add 10, 20, ..., each of a full batch; between
\* them the batch holds the adds since the last one; the final Flush takes
\* the remaining N mod 10 and leaves N entries, those of frames 1..N.
BatchSchedule ==
    /\ ImplicitLog = [k \in 1..(nAdds \div batchSize) |->
                        [at |-> k * batchSize, n |-> batchSize,
                         op |-> "AddResult", err |-> "nil"]]
    /\ ret.op # "Flush" =>
          /\ results = ResultsOfFrames(nAdds - (nAdds % batchSize) + 1, nAdds)
          /\ Stored(fs) = ResultsOfFrames(1, nAdds - (nAdds % batchSize))
    /\ ret.op = "Flush" =>
          /\ nAdds = target
          /\ Len(ret.pre) = target % batchSize
          /\ results = << >>
          /\ Len(Stored(fs)) = target
          /\ Stored(fs) = ResultsOfFrames(1, target)

\* C6 as stated: whenever every write of the run has succeeded, N AddResult
\* calls and one Flush on a new store flush implicitly exactly after the
\* 10th, 20th, ... add, the final Flush persists the remaining N mod 10
\* results, and the file then holds exactly N entries.
C6_AsStated == EveryWriteSucceeded => BatchSchedule

\* C6, amended: the same, provided that every read of the existing results
\* file has succeeded as well (flush takes an unreadable file for an empty
\* one and then replaces it).
C6_BatchSchedule ==
    (EveryWriteSucceeded /\ faults.read = 0) => BatchSchedule

\* The 23-frame run: flushes after add 10 and add 20, a final flush of 3,
\* 23 entries in the file.
C6_Witness ==
    /\ target = 23
    /\ ret.op = "Flush"
    /\ faults = NoFaults
    /\ [i \in 1..Len(flushLog) |-> <<flushLog[i].at, flushLog[i].n, flushLog[i].err>>]
         = << <<10, 10, "nil">>, <<20, 10, "nil">>, <<23, 3, "nil">> >>
    /\ Len(Stored(fs)) = 23

\* C7 as stated: a successful flush of a batch of B results onto a file of D
\* results leaves the D entries, unchanged and in order, followed by the B.
C7_AsStated ==
    (ret.flushed /\ ret.flushErr = "nil" /\ ret.beforeSt = "ok")
        => /\ Stored(fs) = ret.before \o ret.pre
           /\ Len(Stored(fs)) = Len(ret.before) + Len(ret.pre)

\* C7, amended: a successful flush whose read of the results file did not
\* fail leaves the entries the file held before (none when it was missing or
\* not a JSON array), unchanged and in order, followed by the batch in the
\* order of the adds.
C7_FlushAppends ==
    (ret.flushed /\ ret.flushErr = "nil" /\ ret.readFault = 0)
        => /\ Stored(fs) = ret.before \o ret.pre
           /\ Len(Stored(fs)) = Len(ret.before) + Len(ret.pre)

C7_Witness ==
    /\ ret.op = "Flush" /\ ret.wrote /\ ret.readFault = 0
    /\ ret.beforeSt = "ok"
    /\ Len(ret.before) = 2 /\ Len(ret.pre) = 2
    /\ FramesOf(ret.before) # FramesOf(ret.pre)

\* C8: the persisted result set holds at most one entry per frame
\* identifier, after any sequence of AddResult and successful Flush calls.
C8_OneEntryPerFrame ==
    \A i, j \in 1..Len(Stored(fs)) :
        i # j => Stored(fs)[i].Frame # Stored(fs)[j].Frame

\* C9: a flush failure inside AddResult is handed back to the caller of
\* AddResult.
C9_AddResultPropagates ==
    (ret.op = "AddResult" /\ ret.flushErr # "nil") => ret.err = ret.flushErr

\* C10: a call whose flush returned an error leaves the batch as it was when
\* the flush began (for AddResult: the batch of before the call with the
\* added result appended), and the batch never gets shorter except by a
\* flush that wrote the file.
C10_BatchKeptOnError ==
    [][ /\ (ret'.flushed /\ ret'.flushErr # "nil") =>
             /\ ~ret'.wrote
             /\ fs'.st # "ok" \/ fs' = fs
             /\ \/ ret'.op = "Flush" /\ results' = results
                \/ /\ ret'.op = "AddResult"
                   /\ Len(results') = Len(results) + 1
                   /\ SubSeq(results', 1, Len(results)) = results
        /\ Len(results') < Len(results) =>
             /\ ret'.wrote /\ ret'.flushErr = "nil"
             /\ results' = << >>
      ]_vars

C10_Witness ==
    /\ ret.op = "Flush"
    /\ ret.flushErr = "encode"
    /\ Len(results) = 2
    /\ results = ret.pre

\* C11: a crash at any point of a flush leaves the results file holding
\* either the complete collection of before the flush or the complete
\* collection of after it; the file is never left truncated or partly
\* written.
C11_CrashLeavesCompleteFile ==
    ret.op = "crash" =>
        \/ fs.st = ret.beforeSt /\ Stored(fs) = ret.before
        \/ fs.st = "ok" /\ Stored(fs) = ret.before \o ret.pre

\* C12: a flush of a non-empty batch that finds the results file missing,
\* unreadable or not parseable, and whose writes do not fail, takes the
\* existing collection for empty: it returns nil, the file then holds
\* exactly the batch, and the batch is cleared.
C12_UnusableFileIsEmpty ==
    (/\ ret.op \in {"AddResult", "Flush"} /\ ret.flushed /\ ret.pre # << >>
     /\ ret.beforeSt \in {"missing", "corrupt"} \/ ret.readFault = 1
     /\ ret.flushErr \notin {"mkdir", "create", "encode"})
        => /\ ret.flushErr = "nil"
           /\ fs.st = "ok" /\ Stored(fs) = ret.pre
           /\ results = << >>

\* C13: Flush on an empty batch returns nil and leaves the results file
\* (existence and content), the output directory and the batch unchanged.
C13_EmptyFlushIsNoOp ==
    [][ (ret'.op = "Flush" /\ results = << >>) =>
            /\ ret'.err = "nil" /\ ~ret'.wrote
            /\ fs' = fs
            /\ results' = << >>
            /\ faults' = faults
      ]_vars

\* Flush of an empty batch, by a store whose directory does not exist yet
C13_Witness ==
    /\ ret.op = "Flush" /\ ret.pre = << >> /\ ret.err = "nil"
    /\ results = << >>
    /\ ~fs.dir /\ fs.st = "missing"

C15_GetEmbeddingNeverBlocks ==
    [][ (nReq' # nReq /\ ~queueClosed) =>
          LET r == nReq'
              c == lastCall'.content
          IN
          /\ lastCall'.req = r
          /\ lastCall'.outcome \in {"sent", "default"}
          /\ ~panicked'
          /\ ewpc' = ewpc
          /\ Len(workQueue) >= QueueCap =>
                /\ lastCall'.outcome = "default"
                /\ workQueue' = workQueue
                /\ resultChan'[r].buf = <<Result(c, NoVector, "queue full")>>
          /\ Len(workQueue) < QueueCap =>
                /\ lastCall'.outcome = "sent"
                /\ workQueue' = Append(workQueue, Work(c, r))
                /\ resultChan'[r].buf = << >>
      ]_vars

\* a call rejected by a full queue
C15_Witness ==
    /\ lastCall.outcome = "default"
    /\ Len(workQueue) = QueueCap
    /\ workQueue[1].Result # lastCall.req
    /\ resultChan[lastCall.req].buf # << >>
    /\ resultChan[lastCall.req].buf[1].Error = "queue full"

\* C16: after Close, a GetEmbedding call fails with an error result and does
\* not panic; and Close returns only after every worker has exited.
C16_SubmitAfterCloseFails ==
    /\ lastCall.outcome # "panic"
    /\ ~panicked
    /\ closer = "returned" => \A w \in 1..numWorkers : ewpc[w] = "done"

\* C17: a worker's send of a result never waits: every result channel gets
\* at most one message, so the channel a worker is about to send on is open
\* and empty, whatever the callers of other requests have or have not read.
C17_WorkerNeverBlocks ==
    /\ \A ch \in Requests :
          /\ ehist.sent[ch] <= 1
          /\ Len(resultChan[ch].buf) <= 1
    /\ \A w \in EmbWorkers :
          ewpc[w] = "send" =>
             /\ ~resultChan[ework[w].Result].closed
             /\ resultChan[ework[w].Result].buf = << >>

\* the caller of request 1 has not read its result; request 2 was served
\* and read meanwhile
C17_Witness ==
    /\ resultChan[1].buf # << >> /\ resultChan[1].buf[1].Error = "nil"
    /\ ehist.got[1] = "nothing"
    /\ ehist.sent[2] = 1
    /\ ehist.got[2] = "v"

(***************************************************************************)
(* Properties of the relational store.                                     *)
(***************************************************************************)
AnalysesOf(fid) == {a \in analysisRows : a.frame_id = fid}

\* C18: AddResult for a frame that has an Analysis with a non-null
\* embedding returns nil at once: it requests no embedding and leaves the
\* tables frames and analyses as they are.
C18_ProcessedFrameSkipped ==
    [][ \A p \in PgCalls :
          (/\ pgpc[p] = "select" /\ pgpc'[p] # "select"
           /\ \E f \in FramesNumbered(frameRows, pgloc[p].frameNum) :
                 HasEmbedding(analysisRows, f.id))
          => /\ pgpc'[p] = "done"
             /\ pgret'[p] = "nil"
             /\ pghist'[p] = 0
             /\ frameRows' = frameRows
             /\ analysisRows' = analysisRows
      ]_vars

\* a call with other content for the processed frame 1 has returned nil
C18_Witness ==
    \E p \in PgCalls :
        /\ pgpc[p] = "done" /\ pgret[p] = "nil" /\ pghist[p] = 0
        /\ pgloc[p].frameNum = 1
        /\ pgarg[p].Content = "b"
        /\ \A q \in PgCalls : q # p => pgpc[q] = "idle"
        /\ analysisRows = {AnalysisRow(1, 1, "a", "v")}

\* C19: at most one Frame row for a video and frame number, and at most
\* one Analysis row for a frame, in every reachable state.
C19_UniqueRows ==
    /\ \A f, g \in frameRows :
          (f.video_id = g.video_id /\ f.frame_number = g.frame_number) => f = g
    /\ \A a, b \in analysisRows : a.frame_id = b.frame_id => a = b

\* two calls for the same new frame have raced: one insert was rejected
C19_Witness ==
    \E p, q \in PgCalls :
        /\ pgret[p] = "failed to store frame information"
        /\ pgpc[q] = "done" /\ pgret[q] = "nil" /\ pghist[q] = 1
        /\ pgloc[p].frameNum = pgloc[q].frameNum
        /\ Cardinality(FramesNumbered(frameRows, pgloc[q].frameNum)) = 1
        /\ Cardinality(AnalysesOf(pgloc[q].frameID)) = 1

\* C20: two AddResult calls for the same frame number, with neither the
\* frame nor an analysis present beforehand (frame 2 is in no table at the
\* start), both return nil in every interleaving, and the store ends with
\* one Frame row and one Analysis row for the frame.
C20_BothCallsSucceed ==
    \A p, q \in PgCalls :
        (/\ p # q
         /\ pgpc[p] = "done" /\ pgpc[q] = "done"
         /\ pgloc[p].frameNum = 2 /\ pgloc[q].frameNum = 2)
        => /\ pgret[p] = "nil" /\ pgret[q] = "nil"
           /\ Cardinality(FramesNumbered(frameRows, 2)) = 1
           /\ \A f \in FramesNumbered(frameRows, 2) :
                 Cardinality(AnalysesOf(f.id)) = 1

(***************************************************************************)
(* Properties of the searches.                                             *)
(***************************************************************************)
VideoFrames == {f \in frameRows : f.video_id = VideoId}

\* the text t holds the text q as it is written
Contains(t, q) ==
    \E i \in 1..(Len(t) - Len(q) + 1) : SubSeq(t, i, i + Len(q) - 1) = q

SomeContentContains(q) ==
    \E j \in Joined(frameRows, analysisRows) : Contains(j.a.content, q)

SomeContentMatches(q) ==
    \E j \in Joined(frameRows, analysisRows) : ILike(j.a.content, ILikePattern(q))

TextSearched == sres.op = "TextSearchFrames"

C22_EmptyTableIsAnError ==
    (sres.op = "SearchSimilarFrames" /\ VideoFrames = {}) => sres.err # "nil"

\* the distance from the query of the frame a result reports
DistanceOfResult(r) == 1 - r.Similarity

\* C23: a list SearchSimilarFrames returns has at most limit entries, each
\* a frame of the store's video with its analysis, in non-decreasing order
\* of distance from the query embedding, similarity being 1 - distance; and
\* no analysed frame of the video left out is closer than a returned one.
C23_TopKByDistance ==
    (sres.op = "SearchSimilarFrames" /\ sres.err = "nil") =>
        LET res == sres.results
            rows == Joined(frameRows, analysisRows)
            returned == {res[i].FrameNumber : i \in 1..Len(res)}
        IN
        /\ Len(res) <= sres.limit
        /\ Cardinality(returned) = Len(res)
        /\ \A i \in 1..Len(res) :
              \E j \in rows :
                 /\ j.f.frame_number = res[i].FrameNumber
                 /\ j.f.frame_path = res[i].FramePath
                 /\ j.a.content = res[i].Description
                 /\ j.a.embedding # Null
                 /\ res[i].Similarity = 1 - CosineDistance(j.a.embedding, "v")
        /\ \A i, k \in 1..Len(res) :
              i < k => DistanceOfResult(res[i]) <= DistanceOfResult(res[k])
        /\ \A j \in rows :
              (j.f.frame_number \notin returned /\ j.a.embedding # Null)
                 => \A i \in 1..Len(res) :
                       CosineDistance(j.a.embedding, "v") >= DistanceOfResult(res[i])

\* limit 1 on two analysed frames: the nearer one returned, the farther
\* one left out
C23_Witness ==
    /\ sres.op = "SearchSimilarFrames" /\ sres.err = "nil"
    /\ sres.limit = 1 /\ Len(sres.results) = 1
    /\ sres.results[1].FrameNumber = 2
    /\ sres.results[1].Similarity = 1
    /\ \E j \in Joined(frameRows, analysisRows) :
          j.f.frame_number = 1 /\ j.a.embedding = "w"

\* C24: BatchAddResults returns only after an AddResult call has been made
\* and has completed for every submitted result, whether or not others
\* failed; it returns an error if and only if some AddResult call failed,
\* and the error counts the failed calls.
C24_BatchAttemptsAll ==
    batchCall.pc = "returned" =>
        /\ \A p \in PgCalls : pgpc[p] = "done" /\ pgret[p] # "none"
        /\ batchCall.err # "nil" <=> \E p \in PgCalls : pgret[p] # "nil"
        /\ batchCall.failed = Cardinality({p \in PgCalls : pgret[p] # "nil"})

\* one call failed on its file name, another wrote its analysis all the same
C24_Witness ==
    /\ batchCall.pc = "returned" /\ batchCall.err # "nil" /\ batchCall.failed = 1
    /\ \E p, q \in PgCalls :
          /\ pgret[p] = "format"
          /\ pgret[q] = "nil" /\ pghist[q] = 1

(***************************************************************************)
(* SpecLock: one file store (internal/storage) called by several           *)
(* goroutines at once. Every statement of AddResult, Flush and flush that  *)
(* touches s.mu, s.results or the results file is a step of its own, so    *)
(* that the mutex is what keeps the calls apart. The store never looks     *)
(* into a result: the results are named by the order in which they enter   *)
(* the batch, the k-th one appended being the result of frame k.           *)
(***************************************************************************)
LockImpls == {"Storage", "storageImpl"}

\* a faulty variant of MutexFree: Lock returns whoever holds the mutex
MutexIgnored(holders) == TRUE
\* s.mu.Lock(): returns only when no goroutine holds the mutex
MutexFree(holders) == holders = {}

\* flush, from os.Stat to Encode: the file after the write of allResults,
\* the error returned and the failed write. [err, fs, fault]
WriteAll(f, all, io) ==
    IF ~f.dir /\ ~io.mkdir THEN [err |-> "mkdir", fs |-> f, fault |-> 1]
    ELSE IF ~io.create
         THEN [err |-> "create", fs |-> [f EXCEPT !.dir = TRUE], fault |-> 1]
    ELSE IF ~io.encode
         THEN [err |-> "encode",
               fs |-> [dir |-> TRUE, st |-> "corrupt", content |-> << >>],
               fault |-> 1]
    ELSE [err |-> "nil", fs |-> [dir |-> TRUE, st |-> "ok", content |-> all],
          fault |-> 0]

\* the results an earlier run has left in the file, if it left any
LockFiles ==
    {f \in InitialFiles :
        f.st = "ok" => f.content = <<AnalysisResult(1), AnalysisResult(2)>>}

\* the results appended to the batch so far
Appended == ldone + Cardinality({g \in Callers : lcall[g].arg # 0})

InitLock ==
    /\ \E i \in LockImpls : NewStorage(i)
    /\ fs \in LockFiles
    /\ stored0 = Stored(fs)
    /\ mu = {}
    /\ lpc = [g \in Callers |-> "idle"]
    /\ lcall = [g \in Callers |-> NoLockCall]
    /\ lall = [g \in Callers |-> << >>]
    /\ ldone = 0
    /\ DriverIdle
    /\ PipeIdle
    /\ AuxIdle
    /\ EmbIdle
    /\ PgIdle
    /\ SearchIdle

LockFrame == UNCHANGED <<target, flushLog, pipeVars, embVars, pgVars, searchVars,
                         auxVars, impl, ret, stored0>>

\* a goroutine calls AddResult
CallAddResult(g) ==
    /\ lpc[g] = "idle"
    /\ nAdds < MaxLockAdds
    /\ nAdds' = nAdds + 1
    /\ lcall' = [lcall EXCEPT ![g] = [op |-> "AddResult", arg |-> 0, err |-> "nil"]]
    /\ lpc' = [lpc EXCEPT ![g] = "lock"]
    /\ UNCHANGED <<mu, lall, ldone, results, fs, faults>>
    /\ LockFrame

\* a goroutine calls Flush
CallFlush(g) ==
    /\ lpc[g] = "idle"
    /\ lcall' = [lcall EXCEPT ![g] = [op |-> "Flush", arg |-> 0, err |-> "nil"]]
    /\ lpc' = [lpc EXCEPT ![g] = "lock"]
    /\ UNCHANGED <<mu, lall, ldone, nAdds, results, fs, faults>>
    /\ LockFrame

\* s.mu.Lock()
Lock(g) ==
    /\ lpc[g] = "lock"
    /\ MutexFree(mu)
    /\ mu' = mu \cup {g}
    /\ lpc' = [lpc EXCEPT ![g] = IF lcall[g].op = "AddResult" THEN "append"
                                                             ELSE "flush"]
    /\ UNCHANGED <<lcall, lall, ldone, nAdds, results, fs, faults>>
    /\ LockFrame

\* AddResult: s.results = append(s.results, result), and the test of the
\* batch's length
AppendResult(g) ==
    /\ lpc[g] = "append"
    /\ lcall' = [lcall EXCEPT ![g].arg = Appended + 1]
    /\ results' = Append(results, AnalysisResult(Appended + 1))
    /\ lpc' = [lpc EXCEPT ![g] = IF BatchFull(results') THEN "flush" ELSE "unlock"]
    /\ UNCHANGED <<mu, lall, ldone, nAdds, fs, faults>>
    /\ LockFrame

\* flush: the test for an empty batch, the read of the results file and
\* allResults := append(existingResults, s.results...)
FlushRead(g) ==
    /\ lpc[g] = "flush"
    /\ IF EmptyBatch(results)
       THEN /\ lpc' = [lpc EXCEPT ![g] = "unlock"]
            /\ UNCHANGED <<lcall, lall, faults>>
       ELSE \E io \in IOOutcomes :
              LET rd == ReadExisting(impl, fs, io) IN
              /\ io.mkdir /\ io.create /\ io.encode
              /\ faults.read + faults.write + rd.fault <= MaxFaults
              /\ faults' = [faults EXCEPT !.read = @ + rd.fault]
              /\ IF rd.err # "nil"
                 THEN /\ lcall' = [lcall EXCEPT ![g].err = rd.err]
                      /\ lpc' = [lpc EXCEPT ![g] = "unlock"]
                      /\ UNCHANGED lall
                 ELSE /\ lall' = [lall EXCEPT ![g] = MergeResults(rd.existing, results)]
                      /\ lpc' = [lpc EXCEPT ![g] = "write"]
                      /\ UNCHANGED lcall
    /\ UNCHANGED <<mu, ldone, nAdds, results, fs>>
    /\ LockFrame

\* flush: MkdirAll, os.Create, Encode and s.results = nil
FlushWrite(g) ==
    /\ lpc[g] = "write"
    /\ \E io \in IOOutcomes :
         LET w == WriteAll(fs, lall[g], io) IN
         /\ io.read
         /\ faults.read + faults.write + w.fault <= MaxFaults
         /\ faults' = [faults EXCEPT !.write = @ + w.fault]
         /\ fs' = w.fs
         /\ results' = BatchAfterFlush(w.err, results)
         /\ lcall' = [lcall EXCEPT ![g].err = w.err]
    /\ lpc' = [lpc EXCEPT ![g] = "unlock"]
    /\ lall' = [lall EXCEPT ![g] = << >>]
    /\ UNCHANGED <<mu, ldone, nAdds>>
    /\ LockFrame

\* the deferred s.mu.Unlock(), and the return
Unlock(g) ==
    /\ lpc[g] = "unlock"
    /\ mu' = mu \ {g}
    /\ ldone' = IF lcall[g].op = "AddResult" THEN ldone + 1 ELSE ldone
    /\ lcall' = [lcall EXCEPT ![g] = NoLockCall]
    /\ lpc' = [lpc EXCEPT ![g] = "idle"]
    /\ UNCHANGED <<lall, nAdds, results, fs, faults>>
    /\ LockFrame

NextLock ==
    \/ \E g \in Callers : CallAddResult(g)
    \/ \E g \in Callers : CallFlush(g)
    \/ \E g \in Callers : Lock(g)
    \/ \E g \in Callers : AppendResult(g)
    \/ \E g \in Callers : FlushRead(g)
    \/ \E g \in Callers : FlushWrite(g)
    \/ \E g \in Callers : Unlock(g)

SpecLock == InitLock /\ [][NextLock]_vars

NoCallInProgress == \A g \in Callers : lpc[g] = "idle"

\* The claim as worded, with writes succeeding and nothing said of reads:
\* a flush whose read of the results file fails replaces the file's entries
\* by the batch.
C25_AsStated ==
    (NoCallInProgress /\ faults.write = 0) =>
        Len(Stored(fs)) + Len(results) = Len(stored0) + ldone

\* C25: for every interleaving of concurrent AddResult and Flush calls on
\* one file store whose writes and reads of the results file succeed, the
\* mutex is held by at most one call at a time, and whenever no call is in
\* progress the file's entries followed by the buffer are the entries the
\* file held at first followed by one entry for each completed AddResult
\* call: none lost, none twice.
C25_NoResultLost ==
    /\ Cardinality(mu) <= 1
    /\ (NoCallInProgress /\ faults.write = 0 /\ faults.read = 0) =>
          LET all == Stored(fs) \o results IN
          /\ Len(all) = Len(stored0) + ldone
          /\ SubSeq(all, 1, Len(stored0)) = stored0
          /\ \A k \in 1..ldone : all[Len(stored0) + k] = AnalysisResult(k)

\* the tenth AddResult has flushed the batch behind the two entries of an
\* earlier run and still holds the mutex, while another goroutine waits in
\* Lock
C25_Witness ==
    /\ faults = NoFaults
    /\ Len(stored0) = 2
    /\ Len(Stored(fs)) = Len(stored0) + batchSize
    /\ results = << >>
    /\ \E g, h \in Callers :
          /\ lpc[g] = "unlock" /\ lcall[g].arg = batchSize /\ mu = {g}
          /\ lpc[h] = "lock"

\* C26: when a flush has failed in os.Create or in Encode and the next
\* flush of the same store succeeds (its read of the results file
\* succeeding too, and nothing else writing in between), the results file
\* holds every entry it held before the failed flush and every result that
\* was buffered.
C26_FailedFlushLosesNothing ==
    [][ (/\ ret.flushed /\ ret.flushErr \in {"create", "encode"}
         /\ ret'.flushed /\ ret'.flushErr = "nil" /\ ret'.readFault = 0)
            => /\ Range(ret.before) \subseteq Range(Stored(fs'))
               /\ Range(results) \subseteq Range(Stored(fs')) ]_vars

\* C27: as long as every flush so far has succeeded, the batch holds fewer
\* than batchSize results between calls, however many AddResult calls
\* have been made.
C27_BoundedBuffer ==
    (\A i \in 1..Len(flushLog) : flushLog[i].err = "nil")
        => Len(results) < batchSize

\* nineteen adds: one flush, of ten results, and nine results in the batch
C27_Witness ==
    /\ nAdds = 19
    /\ Len(flushLog) = 1 /\ flushLog[1].err = "nil" /\ flushLog[1].n = batchSize
    /\ Len(results) = batchSize - 1

\* a send that would find its channel full
DispatcherWouldBlock ==
    Alive /\ dpc \in 1..Len(frames) /\ ~(Len(workChan) < ChanCap(frames))
WorkerWouldBlock ==
    Alive /\ \E w \in Workers :
        /\ wpc[w] = "analyze"
        /\ \/ ~(Len(resultsChan) < ChanCap(frames))
           \/ ~(Len(errorsChan) < ChanCap(frames))

\* C28: the dispatcher never finds the work channel full and a worker never
\* finds the results or the errors channel full, whatever the collector
\* does; and once processFrames has started its goroutines, every worker
\* terminates and processFrames returns.
C28_NoDeadlock ==
    /\ [](~DispatcherWouldBlock /\ ~WorkerWouldBlock)
    /\ (mpc = "wait") ~> (mpc = "returned" /\ \A w \in Workers : wpc[w] = "done")

\* every frame analysed and its result emitted while the collector had
\* taken nothing: the results channel holds N results, N the largest the
\* specification has
C28_Witness ==
    /\ Len(frames) = LiveFrames
    /\ Len(resultsChan) = LiveFrames
    /\ cpc = "range"
    /\ \A w \in Workers : wpc[w] = "done"
    /\ mpc = "returned"

\* a send on a closed channel
SendOnClosed ==
    \/ dpc \in 1..Len(frames) /\ workClosed
    \/ \E w \in Workers : wpc[w] = "analyze" /\ (resultsClosed \/ errorsClosed)

\* C29: the results and the errors channel are closed only when every
\* worker has exited, the work channel only when all N items have been
\* enqueued, and no worker and no dispatcher is ever about to send on a
\* closed channel.
C29_CloseAfterSenders ==
    /\ (resultsClosed \/ errorsClosed) => \A w \in Workers : wpc[w] = "done"
    /\ workClosed => dpc = Len(frames) + 1
    /\ ~SendOnClosed

\* the three channels closed after a run in which a worker sent a result
\* and a worker sent an error
C29_Witness ==
    /\ workClosed /\ resultsClosed /\ errorsClosed
    /\ Len(frames) >= 2
    /\ \E f, g \in FrameIds : hist.per[f].res = 1 /\ hist.per[g].err = 1

\* the items taken from the work channel so far
Dequeued == dpc - 1 - Len(workChan)

\* C30: the work channel holds, in order, the items of the frames that
\* follow the ones already taken, the item of the i-th frame of the sorted
\* list carrying that frame's name, FrameNum = i and Total = N; and the
\* frames taken so far are the first ones of the list, each taken once.
C30_WorkInListOrder ==
    dpc >= 1 =>
        /\ Dequeued \in 0..Len(frames)
        /\ \A j \in 1..Len(workChan) :
              /\ workChan[j].FramePath = frames[Dequeued + j]
              /\ workChan[j].FrameNum = Dequeued + j
              /\ workChan[j].Total = Len(frames)
        /\ \A k \in 1..Len(frames) :
              hist.per[frames[k]].pulled = IF k <= Dequeued THEN 1 ELSE 0
        /\ \A w \in Workers :
              wpc[w] = "analyze" =>
                 /\ work[w].FrameNum \in 1..Dequeued
                 /\ work[w].FramePath = frames[work[w].FrameNum]
                 /\ work[w].Total = Len(frames)

\* the first of three items taken, the second and the third waiting in the
\* channel in that order
C30_Witness ==
    /\ Len(frames) = 3 /\ Dequeued = 1
    /\ Len(workChan) = 2
    /\ workChan[1].FrameNum = 2 /\ workChan[2].FrameNum = 3
    /\ \E w \in Workers : wpc[w] = "analyze" /\ work[w].FrameNum = 1

\* the workers that have sent a result and not yet decremented the counter
AboutToDecrement == {w \in Workers : wpc[w] = "decrement"}

\* C31: once processFrames has started its goroutines, the remaining-frames
\* counter is N less one for every result emitted whose worker has gone on
\* to remainingFrames.Add(-1): it is never negative, N - remaining never
\* exceeds the number of results emitted, a failed frame leaves it as it
\* is, and when every worker has exited it is the number of failed frames.
C31_RemainingCounter ==
    dpc >= 1 =>
        /\ remainingFrames \in 0..Len(frames)
        /\ Len(frames) - remainingFrames
              = Cardinality(Succeeded) - Cardinality(AboutToDecrement)
        /\ Len(frames) - remainingFrames <= Cardinality(Succeeded)
        /\ (\A w \in Workers : wpc[w] = "done")
              => remainingFrames = Cardinality(Failed)

\* three frames, one analysed and two failed: every worker has exited and
\* the counter stands at two
C31_Witness ==
    /\ Len(frames) = 3
    /\ \A w \in Workers : wpc[w] = "done"
    /\ Cardinality(Succeeded) = 1 /\ Cardinality(Failed) = 2
    /\ remainingFrames = 2

RECURSIVE SumOver(_, _)
SumOver(f, S) ==
    IF S = {} THEN 0
    ELSE LET x == CHOOSE y \in S : TRUE IN f[x] + SumOver(f, S \ {x})

\* the requests that have received a vector
Answered == {r \in Requests : ehist.got[r] \notin {"nothing", "error"}}

\* C32: a cache entry, once written, keeps its vector in every later state,
\* also when two workers miss on the same content and both compute and
\* store; generateEmbedding is invoked at most once for each request, and
\* the requests that receive a vector receive equal vectors.
C32_CacheEntriesImmutable ==
    /\ [][\A c \in Contents : cache[c] # NoVector => cache'[c] = cache[c]]_vars
    /\ [](SumOver(ehist.gen, Contents) <= nReq)
    /\ [](\A r1, r2 \in Answered : ehist.got[r1] = ehist.got[r2])

\* two workers missed on the same content: generateEmbedding ran twice for
\* it, the entry was stored, and both callers have received the vector
C32_Witness ==
    /\ \E c \in Contents : ehist.gen[c] = 2 /\ cache[c] = "v"
    /\ ehist.got[1] = "v" /\ ehist.got[2] = "v"

SlotAlwaysFree(tokens) == TRUE
\* "semaphore <- struct{}{}" on a channel of capacity 8 can proceed
SlotFree(tokens) == tokens < semaphoreCap

InitSem ==
    /\ StoreIdle
    /\ DriverIdle
    /\ PipeIdle
    /\ LockIdle
    /\ EmbIdle
    /\ PgIdle
    /\ SearchIdle
    /\ VideoIdle
    /\ RootIdle
    /\ submitted \in 0..MaxSubmitted
    /\ semaphore = 0
    /\ bgo = [NoGoroutines EXCEPT !.wait = submitted]
    /\ errChan = 0

SemFrame ==
    UNCHANGED <<storeVars, driverVars, pipeVars, embVars, pgVars, searchVars,
                lockVars, videoVars, rootVars, submitted>>

\* goroutine: "semaphore <- struct{}{}", then the call of AddResult
SemAcquire ==
    /\ bgo.wait > 0
    /\ SlotFree(semaphore)
    /\ semaphore' = semaphore + 1
    /\ bgo' = [bgo EXCEPT !.wait = @ - 1, !.run = @ + 1]
    /\ UNCHANGED errChan
    /\ SemFrame

\* goroutine: AddResult returns; an error is sent on errChan
SemAddResultReturns(err) ==
    /\ bgo.run > 0
    /\ bgo' = [bgo EXCEPT !.run = @ - 1, !.release = @ + 1]
    /\ errChan' = IF err THEN errChan + 1 ELSE errChan
    /\ UNCHANGED semaphore
    /\ SemFrame

\* goroutine: the deferred "<-semaphore", then the deferred wg.Done()
SemRelease ==
    /\ bgo.release > 0
    /\ semaphore' = semaphore - 1
    /\ bgo' = [bgo EXCEPT !.release = @ - 1, !.done = @ + 1]
    /\ UNCHANGED errChan
    /\ SemFrame

NextSem ==
    \/ SemAcquire
    \/ \E err \in BOOLEAN : SemAddResultReturns(err)
    \/ SemRelease

SpecSem == InitSem /\ [][NextSem]_vars

\* C34: at no moment are more than 8 goroutines of a BatchAddResults call
\* inside AddResult, however many results were submitted; a goroutine
\* holds a token exactly from its send on the semaphore to its deferred
\* receive, and when every goroutine has finished, AddResult having
\* succeeded or failed, no token is left.
C34_AtMostEightRunning ==
    /\ bgo.run <= semaphoreCap
    /\ semaphore <= semaphoreCap
    /\ semaphore = bgo.run + bgo.release
    /\ bgo.wait + bgo.run + bgo.release + bgo.done = submitted
    /\ bgo.done = submitted => semaphore = 0

\* eight goroutines inside AddResult, a ninth waiting for a token
C34_Witness ==
    /\ bgo.run = semaphoreCap
    /\ bgo.wait >= 1

\* C35: an AddResult call that finds the Frame row of its frame, with no
\* Analysis holding an embedding, inserts no Frame row and takes the id of
\* the row it found; its upsert leaves exactly one Analysis row for that
\* frame, holding the content and the embedding of this call in the place
\* of what was stored before.
C35_ExistingFrameReused ==
    [][\A p \in PgCalls :
         /\ (/\ pgpc[p] = "select" /\ pgpc'[p] # "select"
             /\ \E f \in FramesNumbered(frameRows, pgloc[p].frameNum) :
                   ~HasEmbedding(analysisRows, f.id))
            => /\ pgpc'[p] = "embed"
               /\ frameRows' = frameRows /\ frameSeq' = frameSeq
               /\ \E f \in FramesNumbered(frameRows, pgloc[p].frameNum) :
                     pgloc'[p].frameID = f.id
         /\ (pgpc[p] = "upsert" /\ pgpc'[p] = "done")
            => /\ frameRows' = frameRows
               /\ \E a \in analysisRows' :
                     /\ AnalysesOf(pgloc[p].frameID)' = {a}
                     /\ a.content = pgarg[p].Content
                     /\ a.embedding = pgloc[p].embedding
               /\ \A a \in analysisRows' :
                     a.frame_id # pgloc[p].frameID => a \in analysisRows
      ]_vars

\* frame 1 had its row and no analysis with an embedding: a call with
\* content "b" has returned, the frame still has its one row, and its one
\* analysis holds "b" and the vector
C35_Witness ==
    /\ frameRows = {FrameRow(1, 1, FrameName("", <<0, 0, 0, 1>>, ".jpg"))}
    /\ analysisRows = {AnalysisRow(1, 1, "b", "v")}
    /\ \E p \in PgCalls :
          /\ pgpc[p] = "done" /\ pgret[p] = "nil" /\ pghist[p] = 1
          /\ pgarg[p].Content = "b" /\ pgloc[p].frameID = 1
    /\ \A q \in PgCalls : pgarg[q].Content # "a"

(***************************************************************************)
(* SpecVideo: table videos (InitSchema: "UNIQUE(name)") and calls of       *)
(* getOrCreateVideo, one for each NewPostgresStorage; the calls come from  *)
(* processes started on their own, and each SQL statement is one step.     *)
(***************************************************************************)
VideoNames == 1..MaxVideoNames

VideoRow(id, name) == [id |-> id, name |-> name]

\* "SELECT id FROM videos WHERE name = $1"
VideosNamed(rows, name) == {v \in rows : v.name = name}

\* InitSchema: "UNIQUE(name)" rejects the insert
VideoConflict(rows, name) == VideosNamed(rows, name) # {}

InitVideo ==
    /\ StoreIdle
    /\ DriverIdle
    /\ PipeIdle
    /\ LockIdle
    /\ EmbIdle
    /\ PgIdle
    /\ SearchIdle
    /\ SemIdle
    /\ RootIdle
    /\ videoRows \in {{}, {VideoRow(1, 1)}}
    /\ videoSeq = Cardinality(videoRows) + 1
    /\ vpc = [c \in VideoCalls |-> "idle"]
    /\ varg = [c \in VideoCalls |-> 0]
    /\ vret = [c \in VideoCalls |-> NoVideoRet]

VideoFrame ==
    UNCHANGED <<storeVars, driverVars, pipeVars, embVars, pgVars, searchVars,
                lockVars, semVars, rootVars>>

\* getOrCreateVideo(ctx, videoName): the SELECT and the branches on it
VideoSelect(c, name) ==
    /\ vpc[c] = "idle"
    /\ varg' = [varg EXCEPT ![c] = name]
    /\ LET found == VideosNamed(videoRows, name) IN
       IF found # {}
       THEN \E v \in found :
              /\ vret' = [vret EXCEPT ![c] = [id |-> v.id, err |-> "nil"]]
              /\ vpc' = [vpc EXCEPT ![c] = "done"]
       ELSE /\ vpc' = [vpc EXCEPT ![c] = "insert"]
            /\ vret' = vret
    /\ UNCHANGED <<videoRows, videoSeq>>
    /\ VideoFrame

\* getOrCreateVideo: "INSERT INTO videos (name, created_at) ... RETURNING id"
VideoInsert(c) ==
    /\ vpc[c] = "insert"
    /\ videoSeq' = videoSeq + 1
    /\ IF VideoConflict(videoRows, varg[c])
       THEN /\ vret' = [vret EXCEPT ![c] =
                          [id |-> 0, err |-> "failed to create video entry"]]
            /\ UNCHANGED videoRows
       ELSE /\ videoRows' = videoRows \cup {VideoRow(videoSeq, varg[c])}
            /\ vret' = [vret EXCEPT ![c] = [id |-> videoSeq, err |-> "nil"]]
    /\ vpc' = [vpc EXCEPT ![c] = "done"]
    /\ UNCHANGED varg
    /\ VideoFrame

NextVideo ==
    \/ \E c \in VideoCalls, name \in VideoNames : VideoSelect(c, name)
    \/ \E c \in VideoCalls : VideoInsert(c)

SpecVideo == InitVideo /\ [][NextVideo]_vars

\* C36: in every state there is at most one videos row for a name, a row
\* once written stays as it is, and every getOrCreateVideo call that has
\* returned has returned no error and the id of the row of its name.
C36_OneRowEveryCallReturnsIt ==
    /\ [](\A v, w \in videoRows : v.name = w.name => v = w)
    /\ [][videoRows \subseteq videoRows']_vars
    /\ [](\A c \in VideoCalls :
            vpc[c] = "done" =>
               /\ vret[c].err = "nil"
               /\ VideoRow(vret[c].id, varg[c]) \in videoRows)

\* the text t holds the text q, letters compared without regard to case
ContainsFold(t, q) ==
    \E i \in 1..(Len(t) - Len(q) + 1) :
        \A k \in 1..Len(q) : LowerChar(t[i + k - 1]) = LowerChar(q[k])

\* the analysed frames of the store's video whose content holds the query
Containing(q) ==
    {j \in Joined(frameRows, analysisRows) : ContainsFold(j.a.content, q)}

Min(a, b) == IF a <= b THEN a ELSE b

\* C37: a TextSearchFrames call that returns nil returns the first limit
\* analysed frames, by ascending frame number, among those of the store's
\* video whose content contains the query without regard to case: every
\* entry is such a frame, and no such frame with a lower number than a
\* returned one is left out.
C37_ExactlyContainingFrames ==
    (TextSearched /\ sres.err = "nil") =>
        LET res == sres.results
            hits == Containing(sres.query)
        IN
        /\ Len(res) = Min(sres.limit, Cardinality(hits))
        /\ \A i \in 1..Len(res) :
              \E j \in hits :
                 /\ j.f.frame_number = res[i].FrameNumber
                 /\ j.a.content = res[i].Description
        /\ \A i \in 1..Len(res) - 1 : res[i].FrameNumber < res[i + 1].FrameNumber
        /\ \A j \in hits :
              \/ \E i \in 1..Len(res) : res[i].FrameNumber = j.f.frame_number
              \/ \A i \in 1..Len(res) : res[i].FrameNumber < j.f.frame_number

\* the requests the work queue has accepted: made, not answered by the
\* default case of the select, and not the call that panicked
Accepted ==
    {r \in 1..nReq :
        /\ ~resultChan[r].closed
        /\ ~(lastCall.req = r /\ lastCall.outcome = "panic")}

\* the requests answered at once by the queue-full error
Rejected == {r \in 1..nReq : resultChan[r].closed}

\* the workers that hold a request
Busy == {w \in EmbWorkers : ewpc[w] \in {"load", "generate", "store", "send"}}

C39_CloseDrainsQueue ==
    /\ [](closer = "returned" =>
            /\ workQueue = << >>
            /\ Busy = {}
            /\ \A r \in Accepted : ehist.sent[r] = 1)
    /\ [][\A w \in EmbWorkers :
            (ewpc[w] = "range" /\ ewpc'[w] = "done")
                => (workQueue = << >> /\ queueClosed)]_vars

\* Close was called with accepted requests not yet answered, and has
\* returned
C39_Witness ==
    /\ closer = "returned"
    /\ ehist.atClose
    /\ Accepted # {}
    /\ ~panicked

(***************************************************************************)
(* processVideo of the root package (video.go 16-118) with analyzeImage    *)
(* and saveAnalysisResult (part_012) and the AnalysisResultBatch           *)
(* (part_000). Every frame's analysis succeeds and every file-system call  *)
(* succeeds; os.Create and the Encode after it are one step. The results   *)
(* file is written by the workers (saveAnalysisResult, no lock), by the    *)
(* collector (addResult, under batch.mu) and by processVideo itself (the   *)
(* final flush, without batch.mu).                                         *)
(***************************************************************************)
InitRoot ==
    /\ StoreIdle
    /\ DriverIdle
    /\ PipeIdle
    /\ EmbIdle
    /\ PgIdle
    /\ SearchIdle
    /\ LockIdle
    /\ SemIdle
    /\ VideoIdle
    /\ \E n \in 1..RootFrames :
         root = [NoRoot EXCEPT !.n = n,
                               !.wg = MaxWorkers,
                               !.wpc = [w \in RootWorkers |-> "range"],
                               !.mpc = "wait"]

RootFrame ==
    UNCHANGED <<storeVars, driverVars, pipeVars, embVars, pgVars, searchVars,
                lockVars, semVars, videoVars>>

\* the sender goroutine: "workChan <- WorkItem{...}", the frames in order
RootSendWork ==
    /\ root.sent < root.n
    /\ root' = [root EXCEPT !.workChan = Append(@, root.sent + 1),
                            !.sent = @ + 1]
    /\ RootFrame

\* the sender goroutine: "close(workChan)"
RootCloseWork ==
    /\ root.sent = root.n
    /\ ~root.workClosed
    /\ root' = [root EXCEPT !.workClosed = TRUE]
    /\ RootFrame

\* worker: "for work := range workChan", an item received, and the call
\* of a.Run in analyzeImage
RootWorkerRecv(w) ==
    /\ root.wpc[w] = "range"
    /\ root.workChan # << >>
    /\ root' = [root EXCEPT !.workChan = Tail(@),
                            !.item[w] = Head(root.workChan),
                            !.wpc[w] = "read"]
    /\ RootFrame

\* worker: the loop ends, "defer wg.Done()"
RootWorkerExit(w) ==
    /\ root.wpc[w] = "range"
    /\ root.workChan = << >> /\ root.workClosed
    /\ root' = [root EXCEPT !.wpc[w] = "done", !.wg = @ - 1]
    /\ RootFrame

\* saveAnalysisResult: os.Stat, os.ReadFile, json.Unmarshal, append
RootSaveRead(w) ==
    /\ root.wpc[w] = "read"
    /\ root' = [root EXCEPT
                  !.results[w] = Entries(root.file, OneEntry(root.item[w])),
                  !.wpc[w] = "write"]
    /\ RootFrame

\* saveAnalysisResult: os.Create, Encode(results)
RootSaveWrite(w) ==
    /\ root.wpc[w] = "write"
    /\ root' = [root EXCEPT !.file = root.results[w],
                            !.results[w] = NoEntries,
                            !.wpc[w] = "send"]
    /\ RootFrame

\* worker: "resultsChan <- AnalysisResult{...}" (capacity len(frames))
RootWorkerSend(w) ==
    /\ root.wpc[w] = "send"
    /\ root' = [root EXCEPT !.resultsChan = Append(@, root.item[w]),
                            !.item[w] = 0,
                            !.wpc[w] = "range"]
    /\ RootFrame

\* the collector goroutine: "for result := range resultsChan", and
\* batch.addResult(result) with its flush of a full batch
RootCollect ==
    /\ root.resultsChan # << >>
    /\ LET b == Entries(root.batch, OneEntry(Head(root.resultsChan)))
           full == Total(b, RootFrames) >= BatchSize
       IN root' = [root EXCEPT
                     !.resultsChan = Tail(@),
                     !.batch = IF full THEN NoEntries ELSE b,
                     !.file = IF full THEN Entries(@, b) ELSE @]
    /\ RootFrame

\* processVideo: "wg.Wait()" returns, the two closes, and in flush the
\* test of len(batch.results)
RootWaitReturns ==
    /\ root.mpc = "wait"
    /\ root.wg = 0
    /\ root' = [root EXCEPT
                  !.resultsClosed = TRUE,
                  !.mpc = IF root.batch = NoEntries THEN "done" ELSE "read"]
    /\ RootFrame

\* flush: os.ReadFile, json.Unmarshal, append(existingResults,
\* batch.results...)
RootFlushRead ==
    /\ root.mpc = "read"
    /\ root' = [root EXCEPT !.allResults = Entries(root.file, root.batch),
                            !.mpc = "write"]
    /\ RootFrame

\* flush: os.Create, Encode(allResults), "batch.results = nil"
RootFlushWrite ==
    /\ root.mpc = "write"
    /\ root' = [root EXCEPT !.file = root.allResults,
                            !.allResults = NoEntries,
                            !.batch = NoEntries,
                            !.mpc = "done"]
    /\ RootFrame

NextRoot ==
    \/ RootSendWork
    \/ RootCloseWork
    \/ \E w \in RootWorkers : RootWorkerRecv(w)
    \/ \E w \in RootWorkers : RootWorkerExit(w)
    \/ \E w \in RootWorkers : RootSaveRead(w)
    \/ \E w \in RootWorkers : RootSaveWrite(w)
    \/ \E w \in RootWorkers : RootWorkerSend(w)
    \/ RootCollect
    \/ RootWaitReturns
    \/ RootFlushRead
    \/ RootFlushWrite

SpecRoot == InitRoot /\ [][NextRoot]_vars

\* C40: when processVideo has returned from a run whose frames all
\* succeeded, starting from no results file, analysis_results.json holds
\* exactly one entry of every frame.
C40_OneEntryPerFrame ==
    root.mpc = "done" =>
        \A f \in RootFrameSet : root.file[f] = (IF f <= root.n THEN 1 ELSE 0)

=============================================================================
